---- MODULE Spec2Model ----
(***************************************************************************)
(* VASIM: the replay loop of InMemoryRunnerSimulator, the cluster state    *)
(* provider it drives (SimulatedInMemoryPredictiveClusterStateProvider,    *)
(* the provider the factory builds for every validated config, since the   *)
(* prediction_config dictionary is never empty after validation) and the   *)
(* SimulatedInfraScaler.                                                   *)
(*                                                                         *)
(* Units.  Timestamps are whole seconds; window, lag and recovery_time are *)
(* minutes, as in general_config.  CPU quantities (usage, limits) are      *)
(* counted in quarter cores, so that the recommenders' rounding up to half *)
(* a core is not the identity.  Floating point rounding error is not       *)
(* modelled: arithmetic is exact.                                          *)
(*                                                                         *)
(* Scope.  Traces are sorted with distinct timestamps (one well-formed     *)
(* CSV).  The forecaster never activates: the runs modelled are those      *)
(* whose history stays within prediction_config.waiting_before_predict,    *)
(* where PredictiveFileClusterStateProvider.get_next_recorded_data returns *)
(* the window of FileClusterStateProvider.get_next_recorded_data as is.    *)
(***************************************************************************)
EXTENDS Integers, Sequences, FiniteSets, TLC

VARIABLES
    pc,                 \* position: "constructed", "loop", "done", "aborted" (run_simulation), "direct" (a caller of scale)
    config,             \* ClusterStateConfig.general_config
    algorithm,          \* "additive" | "multiplicative"
    initial_cpu_limit,  \* InMemoryRunnerSimulator.initial_cpu_limit
    recorded_data,      \* provider.recorded_data: sequence of [time, cpu]
    provider,           \* [current_time, curr_cpu_limit, last_scaling_time]
    scaler,             \* [last_scaling_time]
    decisions,          \* rows of decisions.csv after the header
    accepted,           \* history: time_now of every scale call that returned True
    last,               \* history: what the latest action did
    stats,              \* history: counters of the run, and what scale returned in the step of each row
    progress,           \* a second simulator of the same inputs, run by run_simulation_with_progress
    sweep,              \* a call of tune_with_strategy: its pool, workers and result slots
    state_config,       \* a ClusterStateConfig: the content it is built from, its sections, what it is used for
    tuner,              \* a process that generates tuning configurations: arguments, random stream, invocations
    analysis,           \* a merged decision and usage log and the metrics calculated from it
    heap,               \* config objects by address: the base config, its generated copies, their sections
    loader              \* a provider built from the CSV files of a data directory: rows, start_time, end_time

\* the objects that live outside a simulation run and a sweep's pool
library == <<state_config, tuner, analysis, heap, loader>>

vars == <<pc, config, algorithm, initial_cpu_limit, recorded_data, provider,
          scaler, decisions, accepted, last, stats, progress, sweep, library>>

-----------------------------------------------------------------------------
(* Bounds of the model *)

\* grid points of the longest trace
MaxObs == 6
\* direct calls of scale by a caller other than the loop
MaxCalls == 3

-----------------------------------------------------------------------------
(* Values *)

\* Python's None (unset limit, unset last_scaling_time, absent window)
None == -1
\* float nan: what the multiplicative recommender returns for an empty window
NaN == -2

\* n cores in quarter cores
Cores(n) == 4 * n

SecondsPerMinute == 60
\* timedelta.seconds is the seconds component of the duration: 0 .. 86399
SecondsPerDay == 86400

\* x != y of Python floats: nan differs from everything, itself included
Neq(x, y) == IF x = NaN \/ y = NaN THEN TRUE ELSE x # y
\* x < y of Python floats: False whenever nan is involved
Lt(x, y) == x # NaN /\ y # NaN /\ x < y
\* x <= y of Python floats
Le(x, y) == x # NaN /\ y # NaN /\ x <= y

\* smallest integer >= a / b, for b > 0
CeilDiv(a, b) == -((-a) \div b)

RECURSIVE SeqMax(_)
SeqMax(s) == IF Len(s) = 1 THEN s[1]
             ELSE LET m == SeqMax(Tail(s)) IN IF s[1] >= m THEN s[1] ELSE m

RECURSIVE SeqSum(_)
SeqSum(s) == IF Len(s) = 0 THEN 0 ELSE s[1] + SeqSum(Tail(s))

-----------------------------------------------------------------------------
(* ClusterStateConfig.general_config *)

\* ConfigStateConstants.RECOVERY_TIME: the default recovery_time, in minutes
RECOVERY_TIME == 15

lag_seconds == config.lag * SecondsPerMinute
window_seconds == config.window * SecondsPerMinute

-----------------------------------------------------------------------------
(* The provider: SimulatedBaseClusterStateProvider and its subclasses *)

start_time == recorded_data[1].time
end_time == recorded_data[Len(recorded_data)].time

\* the mutant of set_cpu_limit that stamps last_scaling_time on every call
set_cpu_limit_AlwaysStamps(p, new_cpu_limit) ==
    [p EXCEPT !.last_scaling_time = p.current_time,
              !.curr_cpu_limit = new_cpu_limit]

\* set_cpu_limit(new_cpu_limit) on provider record p
set_cpu_limit(p, new_cpu_limit) ==
    [p EXCEPT !.last_scaling_time =
                  IF Neq(new_cpu_limit, p.curr_cpu_limit) THEN p.current_time ELSE @,
              !.curr_cpu_limit = new_cpu_limit]

get_current_cpu_limit(p) == p.curr_cpu_limit

\* the mutant of advance_time that adds the lag twice
advance_time_Twice(p) == [p EXCEPT !.current_time = @ + 2 * lag_seconds]

\* advance_time() on provider record p
advance_time(p) == [p EXCEPT !.current_time = @ + lag_seconds]

\* get_last_decision_time(): current_time - lag (the override of the simulated base)
get_last_decision_time(p) == p.current_time - lag_seconds

\* the mutant of the slice that leaves out the observation at its lower end
Slice_LeftOpen(data, lo, hi) == SelectSeq(data, LAMBDA o : o.time > lo /\ o.time <= hi)

\* DataFrame.loc[lo:hi] on the time index: both ends inclusive
Slice(data, lo, hi) == SelectSeq(data, LAMBDA o : o.time >= lo /\ o.time <= hi)

\* read_metrics_data(): None past the end of the trace, else the window slice
read_metrics_data(p) ==
    IF p.current_time > end_time
    THEN [none |-> TRUE, data |-> <<>>]
    ELSE [none |-> FALSE,
          data |-> Slice(recorded_data, p.current_time - window_seconds, p.current_time)]

\* ClusterStateProvider.drop_duplicates: a row equal to an earlier row is dropped
RECURSIVE drop_duplicates(_)
drop_duplicates(data) ==
    IF Len(data) = 0 THEN <<>>
    ELSE LET init == drop_duplicates(SubSeq(data, 1, Len(data) - 1))
             x == data[Len(data)]
         IN IF \E i \in 1..Len(init) : init[i] = x THEN init ELSE Append(init, x)

\* ClusterStateProvider.sort_data: stable sort by time (insertion of the last row)
RECURSIVE sort_data(_)
sort_data(data) ==
    IF Len(data) <= 1 THEN data
    ELSE LET init == sort_data(SubSeq(data, 1, Len(data) - 1))
             x == data[Len(data)]
             k == Cardinality({i \in 1..Len(init) : init[i].time <= x.time})
         IN SubSeq(init, 1, k) \o <<x>> \o SubSeq(init, k + 1, Len(init))

(* FileClusterStateProvider.truncate_data.  status "raise" is the IndexError *)
(* of recorded_data["time"].iloc[-1] on an empty frame.                     *)
truncate_data(data, last_decision_time) ==
    IF Len(data) = 0 THEN [status |-> "raise", data |-> <<>>, end_time |-> None]
    ELSE LET e == data[Len(data)].time IN
         IF Len(data) > 2 /\ last_decision_time > e
         THEN [status |-> "none", data |-> <<>>, end_time |-> None]
         ELSE [status |-> "ok",
               data |-> SelectSeq(data, LAMBDA o : o.time >= e - window_seconds /\ o.time <= e),
               end_time |-> e]

\* the mutant of get_next_recorded_data that skips the test for two observations
get_next_recorded_data_NoSizeTest(p) ==
    LET r == read_metrics_data(p) IN
    IF r.none THEN [status |-> "raise", data |-> <<>>, end_time |-> None]
    ELSE truncate_data(sort_data(drop_duplicates(r.data)), get_last_decision_time(p))

(* FileClusterStateProvider.get_next_recorded_data, as reached through the   *)
(* predictive provider with the forecaster not activated.  status is "ok"   *)
(* (a window and its end time), "none" ((None, None)) or "raise".           *)
get_next_recorded_data(p) ==
    LET r == read_metrics_data(p) IN
    IF r.none THEN [status |-> "raise", data |-> <<>>, end_time |-> None]
    ELSE
    LET t == truncate_data(sort_data(drop_duplicates(r.data)), get_last_decision_time(p)) IN
    IF t.status # "ok" THEN t
    ELSE IF Len(t.data) = 0 THEN [status |-> "none", data |-> <<>>, end_time |-> None]
    ELSE IF Len(t.data) < 2 THEN [status |-> "none", data |-> <<>>, end_time |-> None]
    ELSE IF Len(t.data) > 2
         THEN IF get_current_cpu_limit(p) = None
              THEN [status |-> "none", data |-> <<>>, end_time |-> None]
              ELSE [t EXCEPT !.data = SelectSeq(t.data, LAMBDA o : Le(o.cpu, config.max_cpu_limit))]
    ELSE t

-----------------------------------------------------------------------------
(* The recommenders *)

\* algo_specific_config defaults: addend 2 cores, multiplier 1.5
addend == Cores(2)
multiplier_num == 3
multiplier_den == 2

CpuOf(data) == [i \in 1..Len(data) |-> data[i].cpu]

\* np.ceil(x * 2) / 2 for x = num / den quarter cores
CeilToHalfCore(num, den) == 2 * CeilDiv(num, 2 * den)

(* SimpleAdditiveRecommender.run: ndarray.max() of an empty array raises *)
additive_run(data) ==
    IF Len(data) = 0 THEN [raised |-> TRUE, new_limit |-> None]
    ELSE [raised |-> FALSE, new_limit |-> CeilToHalfCore(addend + SeqMax(CpuOf(data)), 1)]

(* SimpleMultiplierRecommender.run.  The rolling mean at row i is taken over *)
(* the last smoothing_window rows up to i (min_periods 1); rounding is       *)
(* monotone, so the rounded maximum is the maximum of the rounded means.     *)
(* Series.max() of an empty series is nan, and so is everything after it.    *)
multiplicative_run(data) ==
    IF Len(data) = 0 THEN [raised |-> FALSE, new_limit |-> NaN]
    ELSE LET smoothing_window == config.window
             cpu == CpuOf(data)
             lo(i) == IF i - smoothing_window + 1 > 1 THEN i - smoothing_window + 1 ELSE 1
             rounded == [i \in 1..Len(cpu) |->
                            CeilToHalfCore(multiplier_num * SeqSum(SubSeq(cpu, lo(i), i)),
                                           multiplier_den * (i - lo(i) + 1))]
         IN [raised |-> FALSE, new_limit |-> SeqMax(rounded)]

recommender_run(data) ==
    IF algorithm = "additive" THEN additive_run(data) ELSE multiplicative_run(data)

-----------------------------------------------------------------------------
(* SimulatedInfraScaler *)

\* the mutant of the cooldown test that compares seconds with minutes
RecoveryPassed_NoSeconds(s, time_now) ==
    s.last_scaling_time = None
        \/ ((time_now - s.last_scaling_time) % SecondsPerDay) > config.recovery_time

\* the mutant of the cooldown test that counts the seeding as a scaling
RecoveryPassed_FromStart(s, time_now) ==
    ((time_now - (IF s.last_scaling_time = None THEN start_time ELSE s.last_scaling_time))
        % SecondsPerDay) > config.recovery_time * SecondsPerMinute

\* the cooldown test of scale: timedelta.seconds > recovery_time * 60
RecoveryPassed(s, time_now) ==
    s.last_scaling_time = None
        \/ ((time_now - s.last_scaling_time) % SecondsPerDay)
               > config.recovery_time * SecondsPerMinute

\* the limit scale hands to set_cpu_limit
ClampedLimit(new_limit) ==
    IF Lt(new_limit, config.min_cpu_limit) THEN config.min_cpu_limit
    ELSE IF Lt(config.max_cpu_limit, new_limit) THEN config.max_cpu_limit
    ELSE new_limit

\* the mutant of scale that restarts the cooldown on a suppressed attempt
scale_ResetOnAttempt(new_limit, time_now, p, s) ==
    IF Neq(new_limit, get_current_cpu_limit(p)) /\ RecoveryPassed(s, time_now)
    THEN [ret |-> TRUE,
          provider |-> set_cpu_limit(p, ClampedLimit(new_limit)),
          scaler |-> [s EXCEPT !.last_scaling_time = time_now]]
    ELSE [ret |-> FALSE, provider |-> p,
          scaler |-> [s EXCEPT !.last_scaling_time = time_now]]

\* scale(new_limit, time_now): the result and the provider and scaler after it
scale(new_limit, time_now, p, s) ==
    IF Neq(new_limit, get_current_cpu_limit(p)) /\ RecoveryPassed(s, time_now)
    THEN [ret |-> TRUE,
          provider |-> set_cpu_limit(p, ClampedLimit(new_limit)),
          scaler |-> [s EXCEPT !.last_scaling_time = time_now]]
    ELSE [ret |-> FALSE, provider |-> p, scaler |-> s]

-----------------------------------------------------------------------------
(* Inputs *)

\* seconds between two grid points of a trace: a minute, half a day
TraceGaps == {60, 43200}
\* usage values: 1.25, 3 and 7 cores (the last above every max_cpu_limit used)
CpuValues == {5, 12, 28}
\* initial_cpu_limit arguments: absent, within the limits, above max_cpu_limit
InitialLimitArgs == {None, Cores(5), Cores(8)}
Algorithms == {"additive", "multiplicative"}
\* <<window, lag>> in grid points
WindowLag == {<<2, 1>>, <<1, 1>>, <<2, 2>>}

\* validated configs for a trace of gap g seconds
Configs(g) ==
    { [window |-> wl[1] * (g \div SecondsPerMinute),
       lag |-> wl[2] * (g \div SecondsPerMinute),
       min_cpu_limit |-> Cores(4),
       max_cpu_limit |-> Cores(6),
       recovery_time |-> IF g = 60 THEN 1 ELSE RECOVERY_TIME] : wl \in WindowLag }

\* present grid points of a trace of n points: all, or all but two neighbours
Shapes(n) == {0..(n - 1)} \cup { (0..(n - 1)) \ {h, h + 1} : h \in 1..(n - 3) }

RECURSIVE SetToSeq(_)
SetToSeq(S) == IF S = {} THEN <<>>
               ELSE LET m == CHOOSE x \in S : \A y \in S : x <= y
                    IN <<m>> \o SetToSeq(S \ {m})

\* the trace with an observation at g * i for each i of P, cpu[i] its usage
TraceOf(g, P, cpu) ==
    LET idx == SetToSeq(P)
    IN [k \in 1..Len(idx) |-> [time |-> g * idx[k], cpu |-> cpu[idx[k]]]]

Traces(g) == { TraceOf(g, P, cpu) : <<P, cpu>> \in
                 UNION { {<<P, c>> : c \in [P -> CpuValues]} :
                           P \in UNION {Shapes(n) : n \in 1..MaxObs} } }

\* what a caller of scale passes: below min, within the limits, above max
NewLimitArgs == {Cores(3), Cores(5), Cores(8)}
\* the time a caller lets pass between two calls
Elapsed == {0, SecondsPerMinute \div 2, config.recovery_time * SecondsPerMinute,
            config.recovery_time * SecondsPerMinute + 1,
            SecondsPerDay, SecondsPerDay + config.recovery_time * SecondsPerMinute + 1}

NoCall == [op |-> "none", window |-> None, data |-> <<>>,
           recommended |-> FALSE, raised |-> FALSE,
           advanced |-> 0, scaled |-> FALSE, new_limit |-> None, time_now |-> None,
           ret |-> FALSE, pre_limit |-> None, pre_last |-> None]

\* the simulator that run_simulation_with_progress will run, as constructed
FreshGenerator ==
    [pc |-> "constructed",
     provider |-> [current_time |-> start_time, curr_cpu_limit |-> None,
                   last_scaling_time |-> start_time],
     scaler |-> [last_scaling_time |-> None],
     decisions |-> <<>>,
     total_time |-> None, time_elapsed |-> None, yielded |-> <<>>,
     steps |-> 0, flushes |-> 0, metrics |-> 0]

\* a worker process of the pool as it starts: no task, and no FileHandler yet
\* on its root logger or on its SimulatedInfraScaler module logger
FreshWorker == [task |-> 0, root_handlers |-> {}, scaler_handlers |-> {}]

\* tune_with_strategy called with the given arguments, its configurations
\* generated: n of them, numbered 1..n; no pool yet
CalledSweep(n, num_workers, data_present, algorithm_known, raises) ==
    [pc |-> "called", configs |-> n, num_workers |-> num_workers,
     data_present |-> data_present, algorithm_known |-> algorithm_known,
     raises |-> raises,
     queue |-> <<>>,
     worker |-> [w \in 1..num_workers |-> FreshWorker],
     results |-> [c \in 1..n |-> "pending"],
     ended |-> [c \in 1..n |-> FALSE],
     writes |-> {}]

\* no call of tune_with_strategy
NoSweep == [CalledSweep(0, 0, TRUE, TRUE, <<>>) EXCEPT !.pc = "none"]

\* no ClusterStateConfig, no generation of configurations, no analysis
NoConfig == [pc |-> "none"]
NoTuner == [pc |-> "none"]
NoAnalysis == [pc |-> "none"]
NoHeap == [pc |-> "none"]
NoLoader == [pc |-> "none"]

NoLibrary ==
    /\ state_config = NoConfig /\ tuner = NoTuner /\ analysis = NoAnalysis
    /\ heap = NoHeap /\ loader = NoLoader

-----------------------------------------------------------------------------
(* Initial states: InMemoryRunnerSimulator.__init__ has run *)

Init ==
    /\ pc \in {"constructed", "direct"}
    /\ \E g \in TraceGaps :
          /\ config \in Configs(g)
          /\ IF pc = "constructed"
             THEN recorded_data \in Traces(g)
             ELSE recorded_data = TraceOf(g, 0..1, [i \in 0..1 |-> 5])
    /\ algorithm \in (IF pc = "constructed" THEN Algorithms ELSE {"additive"})
    /\ \E arg \in (IF pc = "constructed" THEN InitialLimitArgs ELSE {Cores(5)}) :
          initial_cpu_limit = IF arg = None THEN config.max_cpu_limit ELSE arg
    /\ provider = [current_time |-> start_time,
                   curr_cpu_limit |-> IF pc = "direct" THEN initial_cpu_limit ELSE None,
                   last_scaling_time |-> start_time]
    /\ scaler = [last_scaling_time |-> None]
    /\ decisions = <<>>
    /\ accepted = <<>>
    /\ last = NoCall
    /\ stats = [iterations |-> 0, windows |-> 0, windows_ge2 |-> 0, flushes |-> 0,
                metrics |-> 0, calls |-> 0, clock |-> start_time, rets |-> <<>>]
    /\ progress = FreshGenerator
    /\ sweep = NoSweep
    /\ NoLibrary

\* a process that holds no simulator and runs no sweep
NoSimulation ==
    /\ pc = "none"
    /\ config = CHOOSE c \in Configs(SecondsPerMinute) : TRUE
    /\ algorithm = "additive"
    /\ initial_cpu_limit = config.max_cpu_limit
    /\ recorded_data = TraceOf(SecondsPerMinute, 0..1, [i \in 0..1 |-> 5])
    /\ provider = [current_time |-> start_time, curr_cpu_limit |-> None,
                   last_scaling_time |-> start_time]
    /\ scaler = [last_scaling_time |-> None]
    /\ decisions = <<>>
    /\ accepted = <<>>
    /\ last = NoCall
    /\ stats = [iterations |-> 0, windows |-> 0, windows_ge2 |-> 0, flushes |-> 0,
                metrics |-> 0, calls |-> 0, clock |-> start_time, rets |-> <<>>]
    /\ progress = FreshGenerator
    /\ sweep = NoSweep

\* the variables of a simulation run and of a sweep
simulation == <<pc, config, algorithm, initial_cpu_limit, recorded_data, provider,
                scaler, decisions, accepted, last, stats, progress, sweep>>

-----------------------------------------------------------------------------
(* run_simulation *)

\* the while condition of run_simulation
LoopCondition == provider.current_time + lag_seconds < end_time

\* run_simulation up to the loop: the initial limit is seeded
RunSimulationBegin ==
    /\ pc = "constructed"
    /\ provider' = set_cpu_limit(provider, initial_cpu_limit)
    /\ pc' = "loop"
    /\ last' = [NoCall EXCEPT !.op = "begin"]
    /\ UNCHANGED <<config, algorithm, initial_cpu_limit, recorded_data, scaler,
                   decisions, accepted, stats, progress, sweep, library>>

\* the mutant of output_decision that writes the new limit in both columns
output_decision_NewLimitTwice(rows, latest_time, current_limit, new_limit) ==
    IF latest_time # None
    THEN Append(rows, [latest_time |-> latest_time, curr_limit |-> new_limit,
                       new_limit |-> new_limit])
    ELSE rows

\* output_decision: a row is written unless latest_time is None
output_decision(rows, latest_time, current_limit, new_limit) ==
    IF latest_time # None
    THEN Append(rows, [latest_time |-> latest_time, curr_limit |-> current_limit,
                       new_limit |-> new_limit])
    ELSE rows

\* one iteration of the loop: _execute_simulation_step
ExecuteSimulationStep ==
    /\ pc = "loop"
    /\ LoopCondition
    /\ LET w == get_next_recorded_data(provider)
           r == recommender_run(w.data)
           advanced == advance_time(provider)
           s == scale(r.new_limit, advanced.current_time, advanced, scaler)
           counted == [stats EXCEPT !.iterations = @ + 1,
                                    !.windows = IF w.status = "ok" THEN @ + 1 ELSE @,
                                    !.windows_ge2 = IF w.status = "ok" /\ Len(w.data) >= 2
                                                    THEN @ + 1 ELSE @]
           step == [NoCall EXCEPT !.op = "step",
                                  !.window = IF w.status = "ok" THEN Len(w.data) ELSE None,
                                  !.data = IF w.status = "ok" THEN w.data ELSE <<>>]
       IN
       IF w.status = "raise"
       THEN \* the exception leaves run_simulation
            /\ pc' = "aborted"
            /\ last' = [step EXCEPT !.raised = TRUE]
            /\ stats' = [stats EXCEPT !.iterations = @ + 1]
            /\ UNCHANGED <<provider, scaler, decisions, accepted>>
       ELSE IF w.status = "none"
       THEN /\ provider' = advanced
            /\ last' = [step EXCEPT !.advanced = 1]
            /\ stats' = counted
            /\ UNCHANGED <<pc, scaler, decisions, accepted>>
       ELSE IF r.raised
       THEN \* recommender.run raised: nothing catches it
            /\ pc' = "aborted"
            /\ last' = [step EXCEPT !.recommended = TRUE, !.raised = TRUE]
            /\ stats' = counted
            /\ UNCHANGED <<provider, scaler, decisions, accepted>>
       ELSE IF r.new_limit = None
       THEN /\ decisions' = output_decision(decisions, w.end_time,
                                            get_current_cpu_limit(provider), r.new_limit)
            /\ provider' = advanced
            /\ last' = [step EXCEPT !.recommended = TRUE, !.advanced = 1]
            /\ stats' = [counted EXCEPT !.rets = IF w.end_time # None
                                                THEN Append(@, FALSE) ELSE @]
            /\ UNCHANGED <<pc, scaler, accepted>>
       ELSE /\ decisions' = output_decision(decisions, w.end_time,
                                            get_current_cpu_limit(provider), r.new_limit)
            /\ provider' = s.provider
            /\ scaler' = s.scaler
            /\ accepted' = IF s.ret THEN Append(accepted, advanced.current_time) ELSE accepted
            /\ last' = [step EXCEPT !.recommended = TRUE, !.advanced = 1,
                                    !.scaled = TRUE, !.new_limit = r.new_limit,
                                    !.time_now = advanced.current_time, !.ret = s.ret,
                                    !.pre_limit = get_current_cpu_limit(provider),
                                    !.pre_last = scaler.last_scaling_time]
            /\ stats' = [counted EXCEPT !.rets = IF w.end_time # None
                                                THEN Append(@, s.ret) ELSE @]
            /\ UNCHANGED pc
    /\ UNCHANGED <<config, algorithm, initial_cpu_limit, recorded_data, progress, sweep, library>>

\* run_simulation after the loop: flush_metrics_data, then get_metrics
RunSimulationEnd ==
    /\ pc = "loop"
    /\ ~LoopCondition
    /\ pc' = "done"
    /\ stats' = [stats EXCEPT !.flushes = @ + 1, !.metrics = @ + 1]
    /\ last' = [NoCall EXCEPT !.op = "end"]
    /\ UNCHANGED <<config, algorithm, initial_cpu_limit, recorded_data, provider,
                   scaler, decisions, accepted, progress, sweep, library>>

\* a caller other than the loop calls scale, its clock never running backwards
DirectScale ==
    /\ pc = "direct"
    /\ stats.calls < MaxCalls
    /\ \E new_limit \in NewLimitArgs, dt \in Elapsed :
          LET time_now == stats.clock + dt
              s == scale(new_limit, time_now, provider, scaler)
          IN /\ provider' = s.provider
             /\ scaler' = s.scaler
             /\ accepted' = IF s.ret THEN Append(accepted, time_now) ELSE accepted
             /\ last' = [NoCall EXCEPT !.op = "scale", !.scaled = TRUE,
                                       !.new_limit = new_limit, !.time_now = time_now,
                                       !.ret = s.ret,
                                       !.pre_limit = get_current_cpu_limit(provider),
                                       !.pre_last = scaler.last_scaling_time]
             /\ stats' = [stats EXCEPT !.calls = @ + 1, !.clock = time_now]
    /\ UNCHANGED <<pc, config, algorithm, initial_cpu_limit, recorded_data, decisions,
                   progress, sweep, library>>

Next == RunSimulationBegin \/ ExecuteSimulationStep \/ RunSimulationEnd \/ DirectScale

Spec == Init /\ [][Next]_vars

-----------------------------------------------------------------------------
(* run_simulation_with_progress, on a second simulator built from the same  *)
(* trace and config, drained by its caller after run_simulation has ended   *)

\* _execute_simulation_step on the simulator whose provider, scaler and rows are given
execute_simulation_step(p, s, rows) ==
    LET w == get_next_recorded_data(p)
        r == recommender_run(w.data)
        advanced == advance_time(p)
        sc == scale(r.new_limit, advanced.current_time, advanced, s)
        written == output_decision(rows, w.end_time, get_current_cpu_limit(p), r.new_limit)
    IN IF w.status = "raise"
       THEN [raised |-> TRUE, provider |-> p, scaler |-> s, decisions |-> rows]
       ELSE IF w.status = "none"
       THEN [raised |-> FALSE, provider |-> advanced, scaler |-> s, decisions |-> rows]
       ELSE IF r.raised
       THEN [raised |-> TRUE, provider |-> p, scaler |-> s, decisions |-> rows]
       ELSE IF r.new_limit = None
       THEN [raised |-> FALSE, provider |-> advanced, scaler |-> s, decisions |-> written]
       ELSE [raised |-> FALSE, provider |-> sc.provider, scaler |-> sc.scaler,
             decisions |-> written]

\* the mutant of the generator's while condition that admits equality
ProgressLoopCondition_Inclusive(p) == p.current_time + lag_seconds <= end_time

\* the while condition of run_simulation_with_progress
ProgressLoopCondition(p) == p.current_time + lag_seconds < end_time

\* the generator up to its loop: seeding, total_time, time_elapsed; a yielded
\* progress time_elapsed / total_time is kept as <<time_elapsed, total_time>>
ProgressBegin ==
    /\ pc \in {"done", "aborted"}
    /\ progress.pc = "constructed"
    /\ progress' = [progress EXCEPT
                       !.pc = "loop",
                       !.provider = set_cpu_limit(@, initial_cpu_limit),
                       !.total_time = end_time - progress.provider.current_time,
                       !.time_elapsed = 0]
    /\ UNCHANGED <<pc, config, algorithm, initial_cpu_limit, recorded_data, provider,
                   scaler, decisions, accepted, last, stats, sweep, library>>

\* one iteration of the generator's loop, up to its yield
ProgressStep ==
    /\ progress.pc = "loop"
    /\ ProgressLoopCondition(progress.provider)
    /\ LET e == execute_simulation_step(progress.provider, progress.scaler,
                                        progress.decisions)
           elapsed == progress.time_elapsed + lag_seconds
       IN progress' =
              IF e.raised
              THEN [progress EXCEPT !.pc = "aborted", !.steps = @ + 1]
              ELSE [progress EXCEPT !.provider = e.provider, !.scaler = e.scaler,
                                    !.decisions = e.decisions, !.steps = @ + 1,
                                    !.time_elapsed = elapsed,
                                    !.yielded = Append(@, <<elapsed, progress.total_time>>)]
    /\ UNCHANGED <<pc, config, algorithm, initial_cpu_limit, recorded_data, provider,
                   scaler, decisions, accepted, last, stats, sweep, library>>

\* the generator after its loop: flush_metrics_data, and the generator is exhausted
ProgressEnd ==
    /\ progress.pc = "loop"
    /\ ~ProgressLoopCondition(progress.provider)
    /\ progress' = [progress EXCEPT !.pc = "done", !.flushes = @ + 1]
    /\ UNCHANGED <<pc, config, algorithm, initial_cpu_limit, recorded_data, provider,
                   scaler, decisions, accepted, last, stats, sweep, library>>

ProgressInit == Init /\ pc = "constructed"

ProgressNext ==
    \/ RunSimulationBegin \/ ExecuteSimulationStep \/ RunSimulationEnd
    \/ ProgressBegin \/ ProgressStep \/ ProgressEnd

ProgressSpec == ProgressInit /\ [][ProgressNext]_vars

-----------------------------------------------------------------------------
(* tune_with_strategy: a pool of worker processes maps _tune_parameters over *)
(* the generated configurations. What a simulation does inside a worker is   *)
(* kept to what the sweep sees of it: whether the trace data is there,       *)
(* whether the algorithm is known, whether run_simulation raises (the        *)
(* aborted runs of Spec), and which directories its files and log records    *)
(* go to.                                                                    *)

MaxConfigs == 3
MaxWorkers == 2

\* target_{worker_id}: uuid4 draws are taken as never repeating, so the
\* directory of a configuration is named here by the configuration
target_dir(c) == c

\* the files written on behalf of configuration c into each directory of dirs
Written(c, dirs) == {[config |-> c, dir |-> d] : d \in dirs}

\* with multiprocessing.Pool(processes=num_workers) as pool: pool.starmap(...)
\* up to the point where the tasks are queued and the caller waits
StarmapSubmit ==
    /\ sweep.pc = "called"
    /\ sweep' = [sweep EXCEPT !.pc = "mapping",
                              !.queue = [c \in 1..sweep.configs |-> c]]
    /\ UNCHANGED <<pc, config, algorithm, initial_cpu_limit, recorded_data, provider,
                   scaler, decisions, accepted, last, stats, progress, library>>

\* an idle worker process takes the next task of the pool's queue
WorkerTakesTask(w) ==
    /\ sweep.pc = "mapping"
    /\ sweep.worker[w].task = 0
    /\ sweep.queue # <<>>
    /\ sweep' = [sweep EXCEPT !.worker[w].task = Head(sweep.queue),
                              !.queue = Tail(sweep.queue)]
    /\ UNCHANGED <<pc, config, algorithm, initial_cpu_limit, recorded_data, provider,
                   scaler, decisions, accepted, last, stats, progress, library>>

\* _tune_parameters in worker process w, for the configuration it holds
tune_parameters(w) ==
    /\ sweep.pc = "mapping"
    /\ sweep.worker[w].task # 0
    /\ LET c == sweep.worker[w].task
           own == target_dir(c)
           \* makedirs, error_log.txt, and InMemoryRunnerSimulator.__init__:
           \* _setup_logger adds InMemorySim.log of this run to the root logger
           root == sweep.worker[w].root_handlers \cup {own}
           \* SimulatedInfraScaler.__init__ adds updatelog.txt of this run to
           \* the module logger and logs through it
           scal == sweep.worker[w].scaler_handlers \cup {own}
           constructed == Written(c, {own}) \cup Written(c, scal)
           \* an ERROR record of the run's logger reaches error_log.txt and,
           \* by propagation, every handler of the root logger
           error_logged == Written(c, {own}) \cup Written(c, root)
       IN
       IF ~sweep.data_present
       THEN \* FileClusterStateProvider.__init__ logs on the root logger and
            \* raises SystemExit, which except Exception lets through: the
            \* process ends, its task's result is never sent, and the pool
            \* starts a fresh process in its place
            sweep' = [sweep EXCEPT !.worker[w] = FreshWorker,
                                   !.ended[c] = TRUE,
                                   !.writes = @ \cup Written(c, {own}) \cup Written(c, root)]
       ELSE IF ~sweep.algorithm_known
       THEN \* _create_recommender_algorithm raises ValueError, caught
            sweep' = [sweep EXCEPT !.worker[w] = [task |-> 0, root_handlers |-> root,
                                                  scaler_handlers |-> scal],
                                   !.ended[c] = TRUE,
                                   !.results[c] = "none",
                                   !.writes = @ \cup constructed \cup error_logged]
       ELSE IF sweep.raises[c]
       THEN \* run_simulation raises, caught
            sweep' = [sweep EXCEPT !.worker[w] = [task |-> 0, root_handlers |-> root,
                                                  scaler_handlers |-> scal],
                                   !.ended[c] = TRUE,
                                   !.results[c] = "none",
                                   !.writes = @ \cup constructed \cup error_logged]
       ELSE \* run_simulation returns its metrics
            sweep' = [sweep EXCEPT !.worker[w] = [task |-> 0, root_handlers |-> root,
                                                  scaler_handlers |-> scal],
                                   !.ended[c] = TRUE,
                                   !.results[c] = "metrics",
                                   !.writes = @ \cup constructed]
    /\ UNCHANGED <<pc, config, algorithm, initial_cpu_limit, recorded_data, provider,
                   scaler, decisions, accepted, last, stats, progress, library>>

\* pool.starmap returns once the result of every task has arrived, and
\* tune_with_strategy returns the list
StarmapReturns ==
    /\ sweep.pc = "mapping"
    /\ \A c \in 1..sweep.configs : sweep.results[c] # "pending"
    /\ sweep' = [sweep EXCEPT !.pc = "returned"]
    /\ UNCHANGED <<pc, config, algorithm, initial_cpu_limit, recorded_data, provider,
                   scaler, decisions, accepted, last, stats, progress, library>>

\* the arguments of tune_with_strategy and what the configurations lead to
Sweeps ==
    {CalledSweep(n, k, d, a, r) :
        n \in 1..MaxConfigs, k \in 1..MaxWorkers, d \in BOOLEAN, a \in BOOLEAN,
        r \in UNION {[1..m -> BOOLEAN] : m \in 1..MaxConfigs}}

\* the calling process holds no simulator of its own
TuningInit ==
    /\ pc = "sweep"
    /\ config = CHOOSE c \in Configs(SecondsPerMinute) : TRUE
    /\ algorithm = "additive"
    /\ initial_cpu_limit = config.max_cpu_limit
    /\ recorded_data = TraceOf(SecondsPerMinute, 0..1, [i \in 0..1 |-> 5])
    /\ provider = [current_time |-> start_time, curr_cpu_limit |-> None,
                   last_scaling_time |-> start_time]
    /\ scaler = [last_scaling_time |-> None]
    /\ decisions = <<>>
    /\ accepted = <<>>
    /\ last = NoCall
    /\ stats = [iterations |-> 0, windows |-> 0, windows_ge2 |-> 0, flushes |-> 0,
                metrics |-> 0, calls |-> 0, clock |-> start_time, rets |-> <<>>]
    /\ progress = FreshGenerator
    /\ sweep \in {s \in Sweeps : Len(s.raises) = s.configs}
    /\ NoLibrary

TuningNext ==
    \/ StarmapSubmit
    \/ \E w \in 1..sweep.num_workers : WorkerTakesTask(w)
    \/ \E w \in 1..sweep.num_workers : tune_parameters(w)
    \/ StarmapReturns

TuningSpec == TuningInit /\ [][TuningNext]_vars

-----------------------------------------------------------------------------
(* ClusterStateConfig: construction from a dictionary or a metadata file,    *)
(* validate_config, to_json, and the provider the simulator builds from it.  *)
(* A JSON value is kept with its Python type, as <<type, value>>; a          *)
(* dictionary is a function on the keys it holds.                            *)

DEFAULT_WINDOW == 60
DEFAULT_LAG == 15
DEFAULT_MAX_CPU_LIMIT == 20
DEFAULT_MIN_CPU_LIMIT == 1
DEFAULT_WAITING_BEFORE_PREDICT == 1440
DEFAULT_FREQUENCY_MINUTES == 1
DEFAULT_MINUTES_TO_PREDICT == 10
DEFAULT_TOTAL_PREDICTIVE_WINDOW == 60

\* a Python int
PyInt(n) == <<"int", n>>
\* a Python str, which is no int
PyStr == <<"str", 0>>
\* True and False
PyBool(b) == <<"bool", IF b THEN 1 ELSE 0>>

\* the empty dictionary
EmptyDict == [k \in {} |-> PyStr]

\* d[key] = value
SetItem(d, key, value) ==
    [k \in DOMAIN d \cup {key} |-> IF k = key THEN value ELSE d[k]]

\* d.get(key, {}) for a dictionary of dictionaries
GetSection(d, key) == IF key \in DOMAIN d THEN d[key] ELSE EmptyDict

\* bool(value) of an int or a bool
Truthy(value) == value[2] # 0

\* self.defaults
defaults ==
    [general_config |->
         [window |-> PyInt(DEFAULT_WINDOW), lag |-> PyInt(DEFAULT_LAG),
          max_cpu_limit |-> PyInt(DEFAULT_MAX_CPU_LIMIT),
          min_cpu_limit |-> PyInt(DEFAULT_MIN_CPU_LIMIT),
          recovery_time |-> PyInt(RECOVERY_TIME)],
     prediction_config |->
         [enabled |-> PyBool(FALSE),
          waiting_before_predict |-> PyInt(DEFAULT_WAITING_BEFORE_PREDICT),
          frequency_minutes |-> PyInt(DEFAULT_FREQUENCY_MINUTES),
          forecasting_models |-> PyStr,
          minutes_to_predict |-> PyInt(DEFAULT_MINUTES_TO_PREDICT),
          total_predictive_window |-> PyInt(DEFAULT_TOTAL_PREDICTIVE_WINDOW)]]

general_required_keys == {"window", "lag", "max_cpu_limit", "min_cpu_limit", "recovery_time"}

prediction_required_keys ==
    {"waiting_before_predict", "frequency_minutes", "forecasting_models",
     "minutes_to_predict", "total_predictive_window"}

\* the loops of validate_config that give a missing key its default
FillMissing(d, keys, section) ==
    [k \in DOMAIN d \cup keys |-> IF k \in DOMAIN d THEN d[k] ELSE defaults[section][k]]

\* isinstance(value, int): bool is a subclass of int
IsInstanceInt(value) == value[1] \in {"int", "bool"}

\* _check_positive_integer(key, general_config[key]) on general_config g
check_positive_integer(g, key) ==
    IF ~IsInstanceInt(g[key]) \/ g[key][2] <= 0
    THEN [g EXCEPT ![key] = defaults.general_config[key]]
    ELSE g

\* the mutant of the ordering check that resets max_cpu_limit only
ResetLimits_MaxOnly(g) ==
    IF g["min_cpu_limit"][2] > g["max_cpu_limit"][2]
    THEN [g EXCEPT !["max_cpu_limit"] = defaults.general_config["max_cpu_limit"]]
    ELSE g

\* the last check of validate_config: min_cpu_limit > max_cpu_limit resets both
ResetLimits(g) ==
    IF g["min_cpu_limit"][2] > g["max_cpu_limit"][2]
    THEN [g EXCEPT !["min_cpu_limit"] = defaults.general_config["min_cpu_limit"],
                   !["max_cpu_limit"] = defaults.general_config["max_cpu_limit"]]
    ELSE g

\* the four sanity checks of validate_config, in their order
SanityChecked(g) ==
    check_positive_integer(
        check_positive_integer(
            check_positive_integer(
                check_positive_integer(g, "window"), "lag"), "max_cpu_limit"), "min_cpu_limit")

\* validate_config on the three sections of c
validate_config(c) ==
    LET filled == FillMissing(c.general_config, general_required_keys, "general_config")
        p == c.prediction_config
        prediction ==
            IF "enabled" \in DOMAIN p /\ Truthy(p["enabled"])
            THEN FillMissing(p, prediction_required_keys, "prediction_config")
            ELSE SetItem(p, "enabled", PyBool(FALSE))
    IN [general_config |-> ResetLimits(SanityChecked(filled)),
        algo_specific_config |-> c.algo_specific_config,
        prediction_config |-> prediction]

\* the mutant of _load_from_dict that does not take the algorithm's section
load_from_dict_NoAlgo(config_dict) ==
    [general_config |-> GetSection(config_dict, "general_config"),
     algo_specific_config |-> EmptyDict,
     prediction_config |-> GetSection(config_dict, "prediction_config")]

\* _load_from_dict, which _load_from_json calls with the parsed file
load_from_dict(config_dict) ==
    [general_config |-> GetSection(config_dict, "general_config"),
     algo_specific_config |-> GetSection(config_dict, "algo_specific_config"),
     prediction_config |-> GetSection(config_dict, "prediction_config")]

\* to_json: the dictionary that json.dump writes
to_json(c) ==
    [general_config |-> c.general_config,
     algo_specific_config |-> c.algo_specific_config,
     prediction_config |-> c.prediction_config]

\* the keys PredictiveFileClusterStateProvider.__init__ subscripts
subscripted_prediction_keys ==
    {"frequency_minutes", "waiting_before_predict", "forecasting_models"}

(* _create_cluster_state_provider: create_provider(predictive=prediction_    *)
(* config) takes the dictionary itself as its flag, so the test is whether   *)
(* the dictionary holds any key; the predictive class then subscripts its    *)
(* keys, a missing one raising KeyError.                                     *)
create_provider(c) ==
    IF DOMAIN c.prediction_config # {}
    THEN [class |-> "SimulatedInMemoryPredictiveClusterStateProvider",
          raised |-> ~(subscripted_prediction_keys \subseteq DOMAIN c.prediction_config)]
    ELSE [class |-> "SimulatedInMemoryClusterStateProvider", raised |-> FALSE]

\* a key that is not in the dictionary
Missing == <<"missing", 0>>

\* the dictionary of the keys of f that are there
DictOf(f) == [k \in {x \in DOMAIN f : f[x] # Missing} |-> f[k]]

\* general_config sections supplied: any key may be missing, hold a value
\* that is no positive integer, or hold a positive integer; "note" is a key
\* the program does not know
GeneralSections ==
    {DictOf(f) : f \in
        [window : {Missing, PyInt(0), PyInt(20)},
         lag : {Missing, PyStr, PyInt(10)},
         max_cpu_limit : {Missing, PyInt(-3), PyInt(2), PyInt(25)},
         min_cpu_limit : {Missing, PyInt(0), PyInt(5), PyInt(30)},
         recovery_time : {Missing, PyInt(-5), PyInt(10)},
         note : {Missing, PyStr}]}

AlgoSections == {EmptyDict, [addend |-> PyInt(2)]}

PredictionSections ==
    {EmptyDict,
     [enabled |-> PyBool(FALSE)],
     [enabled |-> PyBool(TRUE), frequency_minutes |-> PyInt(5), model |-> PyStr],
     [f \in DOMAIN defaults.prediction_config |->
          IF f = "enabled" THEN PyBool(TRUE) ELSE defaults.prediction_config[f]],
     defaults.prediction_config}

\* the dictionaries and metadata files a ClusterStateConfig is built from:
\* they hold all three sections, the general one only, or none
Contents ==
    {[k \in K |-> [general_config |-> g, algo_specific_config |-> a,
                   prediction_config |-> p][k]] :
        g \in GeneralSections, a \in AlgoSections, p \in PredictionSections,
        K \in {{"general_config", "algo_specific_config", "prediction_config"},
               {"general_config"}, {}}}

\* no provider built yet
NoProvider == [class |-> "none", raised |-> FALSE]

\* ClusterStateConfig.__init__(config_dict or filename): load, then validate
ConstructConfig ==
    /\ state_config.pc = "given"
    /\ LET c == validate_config(load_from_dict(state_config.content))
       IN state_config' = [state_config EXCEPT
                               !.pc = "constructed",
                               !.general_config = c.general_config,
                               !.algo_specific_config = c.algo_specific_config,
                               !.prediction_config = c.prediction_config]
    /\ UNCHANGED <<simulation, tuner, analysis, heap, loader>>

\* to_json(filepath) of the constructed config
ToJson ==
    /\ state_config.pc = "constructed"
    /\ ~state_config.saved
    /\ state_config' = [state_config EXCEPT !.saved = TRUE, !.written = to_json(state_config)]
    /\ UNCHANGED <<simulation, tuner, analysis, heap, loader>>

\* InMemoryRunnerSimulator._create_cluster_state_provider with the constructed config
CreateClusterStateProvider ==
    /\ state_config.pc = "constructed"
    /\ state_config.provider = NoProvider
    /\ state_config' = [state_config EXCEPT !.provider = create_provider(state_config)]
    /\ UNCHANGED <<simulation, tuner, analysis, heap, loader>>

ConfigInit ==
    /\ NoSimulation
    /\ tuner = NoTuner
    /\ analysis = NoAnalysis
    /\ heap = NoHeap
    /\ loader = NoLoader
    /\ \E content \in Contents :
          state_config = [pc |-> "given", content |-> content,
                          general_config |-> EmptyDict,
                          algo_specific_config |-> EmptyDict,
                          prediction_config |-> EmptyDict,
                          saved |-> FALSE, written |-> EmptyDict, provider |-> NoProvider]

ConfigNext == ConstructConfig \/ ToJson \/ CreateClusterStateProvider

ConfigSpec == ConfigInit /\ [][ConfigNext]_vars

-----------------------------------------------------------------------------
(* analysis.plot_utils.calculate_metrics on a merged log: one row per        *)
(* minute, holding the CURR_LIMIT of the decision log and the usage          *)

\* rows of the longest merged log
MaxRows == 4

\* Series.shift(-1): row i holds the value of row i + 1, the last row nan
shift_back(column) ==
    [i \in 1..Len(column) |-> IF i < Len(column) THEN column[i + 1] ELSE NaN]

\* (merged["CURR_LIMIT"] != merged["CURR_LIMIT"].shift(-1)).sum()
num_changes(column) ==
    Cardinality({i \in 1..Len(column) : Neq(column[i], shift_back(column)[i])})

\* calculate_metrics: {} for a log without rows
calculate_metrics(merged) ==
    IF Len(merged) = 0
    THEN [empty |-> TRUE, num_scalings |-> None]
    ELSE [empty |-> FALSE,
          num_scalings |-> num_changes([i \in 1..Len(merged) |-> merged[i].curr_limit])]

\* the limits a merged log holds
LimitValues == {Cores(4), Cores(5), Cores(6)}

MergedLogs ==
    UNION {[1..n -> [curr_limit : LimitValues, cpu_usage : {Cores(5)}]] : n \in 0..MaxRows}

CalculateMetrics ==
    /\ analysis.pc = "merged"
    /\ analysis' = [analysis EXCEPT !.pc = "calculated",
                                    !.metrics = calculate_metrics(analysis.merged)]
    /\ UNCHANGED <<simulation, state_config, tuner, heap, loader>>

MetricsInit ==
    /\ NoSimulation
    /\ state_config = NoConfig
    /\ tuner = NoTuner
    /\ heap = NoHeap
    /\ loader = NoLoader
    /\ \E merged \in MergedLogs :
          analysis = [pc |-> "merged", merged |-> merged,
                      metrics |-> [empty |-> TRUE, num_scalings |-> None]]

MetricsNext == CalculateMetrics

MetricsSpec == MetricsInit /\ [][MetricsNext]_vars

-----------------------------------------------------------------------------
(* tune_with_strategy up to its result list: the base config, the check of   *)
(* the tuned keys, _create_modified_configs, and the list pool.starmap       *)
(* assembles. The sweeps here are those whose workers all send their result  *)
(* (TuningSpec has the pool and the workers that do not). A dictionary of    *)
(* parameters to tune is kept in its insertion order, as a sequence of       *)
(* [key, values].                                                            *)

\* num_combinations goes up to
MaxCombinations == 2
\* calls of tune_with_strategy with the same arguments
MaxInvocations == 2

(* random.seed(1234) at the import of ParameterTuning: the two highest bits  *)
(* of the successive 32-bit outputs of CPython's Mersenne Twister after that *)
(* seeding. getrandbits(k) for k <= 32 is the k highest bits of one output.  *)
MersenneTop2Bits ==
   << 3, 3, 1, 0, 0, 0, 3, 3, 3, 3, 2, 0, 2, 2, 0, 0, 3, 1, 0, 0, 0, 3, 3, 0, 1, 2, 2, 1, 2, 1,
      0, 0, 0, 2, 0, 3, 0, 2, 1, 3, 3, 0, 0, 2, 2, 3, 1, 0, 2, 2, 0, 2, 2, 0, 1, 3, 2, 0, 2, 1,
      1, 3, 1, 1, 0, 2, 3, 0, 1, 3, 2, 2, 0, 3, 2, 0, 0, 1, 0, 2, 1, 2, 1, 0, 0, 0, 2, 1, 0, 0,
      2, 0, 0, 0, 3, 1, 3, 0, 3, 2, 0, 2, 1, 1, 0, 1, 1, 2, 3, 0, 0, 1, 0, 1, 3, 3, 0, 3, 3, 1,
      0, 2, 1, 3, 1, 1, 1, 2, 3, 1, 1, 0, 3, 3, 1, 3, 3, 2, 3, 0, 1, 2, 3, 2, 3, 1, 1, 1, 0, 3,
      0, 1, 1, 3, 0, 3, 2, 0, 3, 3, 1, 1, 3, 3, 2, 1, 2, 0, 1, 0, 2, 2, 3, 3, 0, 2, 3, 3, 1, 3,
      0, 3, 3, 3, 2, 1, 3, 3, 1, 2, 0, 0, 1, 0, 0, 3, 1, 3, 0, 0, 2, 3, 0, 3, 3, 3, 2, 3, 1, 1,
      3, 1, 0, 2, 1, 3, 0, 2, 1, 3, 0, 0, 1, 0, 2, 3, 3, 1, 2, 0, 3, 3, 1, 3, 3, 0, 2, 3, 2, 1 >>

\* int.bit_length() of 1, 2 and 3
bit_length(n) == IF n = 1 THEN 1 ELSE 2

\* getrandbits(k), k being 1 or 2, when pos outputs have been consumed
getrandbits(pos, k) == MersenneTop2Bits[pos + 1] \div (IF k = 1 THEN 2 ELSE 1)

\* Random._randbelow(n): outputs are drawn until one is below n
RECURSIVE randbelow(_, _)
randbelow(pos, n) ==
    LET r == getrandbits(pos, bit_length(n))
    IN IF r < n THEN [value |-> r, pos |-> pos + 1] ELSE randbelow(pos + 1, n)

\* random.choice(values)
choice(pos, values) ==
    LET b == randbelow(pos, Len(values))
    IN [value |-> values[b.value + 1], pos |-> b.pos]

\* {config_param: random.choice(values) for config_param, values in params.items()}
RECURSIVE choose_params(_, _)
choose_params(pos, params) ==
    IF params = <<>> THEN [chosen |-> <<>>, pos |-> pos]
    ELSE LET c == choice(pos, params[1].values)
             rest == choose_params(c.pos, Tail(params))
         IN [chosen |-> <<[key |-> params[1].key, value |-> c.value]>> \o rest.chosen,
             pos |-> rest.pos]

\* for param, value in params.items(): section[param] = value
RECURSIVE set_items(_, _)
set_items(section, chosen) ==
    IF chosen = <<>> THEN section
    ELSE set_items(SetItem(section, chosen[1].key, chosen[1].value), Tail(chosen))

\* evaluate_config: a deep copy of the base config with the chosen values
evaluate_config(baseconfig, algo_chosen, general_chosen, predictive_chosen) ==
    [general_config |-> set_items(baseconfig.general_config, general_chosen),
     algo_specific_config |-> set_items(baseconfig.algo_specific_config, algo_chosen),
     prediction_config |-> set_items(baseconfig.prediction_config, predictive_chosen)]

\* the mutant of the product that takes the first value of every list only
RECURSIVE product_FirstValues(_)
product_FirstValues(params) ==
    IF params = <<>> THEN << <<>> >>
    ELSE << <<[key |-> params[1].key, value |-> params[1].values[1]]>>
              \o product_FirstValues(Tail(params))[1] >>

\* itertools.product(*params.values()), zipped with the keys: the last list
\* varies fastest; one empty combination for no list at all
RECURSIVE product(_)
product(params) ==
    IF params = <<>> THEN << <<>> >>
    ELSE LET rest == product(Tail(params))
             n == Len(rest)
         IN [j \in 1..(Len(params[1].values) * n) |->
                <<[key |-> params[1].key, value |-> params[1].values[((j - 1) \div n) + 1]]>>
                  \o rest[((j - 1) % n) + 1]]

\* the list comprehension of strategy grid
grid_configs(baseconfig, args) ==
    LET A == product(args.algo)
        G == product(args.general)
        P == product(args.predictive)
    IN [j \in 1..(Len(A) * Len(G) * Len(P)) |->
           evaluate_config(baseconfig,
                           A[((j - 1) \div (Len(G) * Len(P))) + 1],
                           G[(((j - 1) \div Len(P)) % Len(G)) + 1],
                           P[((j - 1) % Len(P)) + 1])]

\* the loop of generate_random_configs, n configurations to go
RECURSIVE random_configs(_, _, _, _)
random_configs(pos, baseconfig, args, n) ==
    IF n = 0 THEN [configs |-> <<>>, pos |-> pos]
    ELSE LET a == choose_params(pos, args.algo)
             g == choose_params(a.pos, args.general)
             p == choose_params(g.pos, args.predictive)
             rest == random_configs(p.pos, baseconfig, args, n - 1)
         IN [configs |-> <<evaluate_config(baseconfig, a.chosen, g.chosen, p.chosen)>>
                           \o rest.configs,
             pos |-> rest.pos]

\* the mutant of generate_random_configs that makes one configuration less
generate_random_configs_OneShort(pos, baseconfig, args) ==
    random_configs(pos, baseconfig, args, args.num_combinations - 1)

\* generate_random_configs
generate_random_configs(pos, baseconfig, args) ==
    random_configs(pos, baseconfig, args, args.num_combinations)

\* _create_modified_configs; raised is the ValueError of an invalid strategy
create_modified_configs(pos, baseconfig, args) ==
    IF args.strategy = "grid"
    THEN [raised |-> FALSE, configs |-> grid_configs(baseconfig, args), pos |-> pos]
    ELSE IF args.strategy = "random"
    THEN LET r == generate_random_configs(pos, baseconfig, args)
         IN [raised |-> FALSE, configs |-> r.configs, pos |-> r.pos]
    ELSE [raised |-> TRUE, configs |-> <<>>, pos |-> pos]

\* the mutant of the key check that looks at the general parameters only
KeysValid_GeneralOnly(baseconfig, args) ==
    \A i \in 1..Len(args.general) :
        args.general[i].key \in DOMAIN baseconfig.general_config

\* the asserts of tune_with_strategy (assert statements are executed: the
\* interpreter does not run with -O)
KeysValid(baseconfig, args) ==
    /\ \A i \in 1..Len(args.algo) :
          args.algo[i].key \in DOMAIN baseconfig.algo_specific_config
    /\ \A i \in 1..Len(args.general) :
          args.general[i].key \in DOMAIN baseconfig.general_config
    /\ \A i \in 1..Len(args.predictive) :
          args.predictive[i].key \in DOMAIN baseconfig.prediction_config

\* the mutant of starmap's list that holds the results as they arrive
starmap_results_AsCompleted(configs, order) ==
    [i \in 1..Len(configs) |-> [config |-> configs[order[i]], task |-> order[i]]]

\* pool.starmap: the result of the i-th task is the i-th of the list,
\* whatever the order the tasks complete in
starmap_results(configs, order) ==
    [i \in 1..Len(configs) |-> [config |-> configs[i], task |-> i]]

\* the metadata files of config_path: one with prediction enabled and every
\* key, one with the general section only
BaseContents ==
    {[general_config |-> [window |-> PyInt(20), lag |-> PyInt(10),
                          max_cpu_limit |-> PyInt(20), min_cpu_limit |-> PyInt(1),
                          recovery_time |-> PyInt(15)],
      algo_specific_config |-> [addend |-> PyInt(2)],
      prediction_config |-> [f \in DOMAIN defaults.prediction_config |->
                                IF f = "enabled" THEN PyBool(TRUE)
                                ELSE defaults.prediction_config[f]]],
     [k \in {"general_config"} |-> [window |-> PyInt(20)]]}

AlgoParams ==
    {<<>>,
     <<[key |-> "addend", values |-> <<PyInt(1), PyInt(3)>>]>>,
     <<[key |-> "bogus", values |-> <<PyInt(1)>>]>>}

GeneralParams ==
    {<<>>,
     <<[key |-> "lag", values |-> <<PyInt(5)>>]>>,
     <<[key |-> "window", values |-> <<PyInt(30), PyInt(40)>>]>>,
     <<[key |-> "window", values |-> <<PyInt(30), PyInt(40), PyInt(50)>>]>>,
     <<[key |-> "window", values |-> <<PyInt(30), PyInt(40)>>],
       [key |-> "lag", values |-> <<PyInt(5), PyInt(7)>>]>>,
     <<[key |-> "lag", values |-> <<PyInt(0), PyInt(5)>>],
       [key |-> "min_cpu_limit", values |-> <<PyInt(30)>>]>>}

PredictiveParams ==
    {<<>>,
     <<[key |-> "waiting_before_predict", values |-> <<PyInt(60), PyInt(120)>>]>>}

Strategies == {"grid", "random", "mlos"}

\* tune_with_strategy, the whole call; fresh tells whether the call is the
\* first one of a new process, which has just imported ParameterTuning;
\* the tasks complete in the order submitted, or the other way round
TuneWithStrategy ==
    /\ tuner.pc = "ready"
    /\ Len(tuner.invocations) < MaxInvocations
    /\ \E fresh \in BOOLEAN, reversed \in BOOLEAN :
          LET start == IF fresh THEN 0 ELSE tuner.rng
              baseconfig == validate_config(load_from_dict(tuner.config_file))
              made == create_modified_configs(start, baseconfig, tuner.args)
              n == Len(made.configs)
              order == IF reversed THEN [i \in 1..n |-> n + 1 - i] ELSE [i \in 1..n |-> i]
              failed == [fresh |-> fresh, outcome |-> "AssertionError", configs |-> <<>>,
                         order |-> <<>>, results |-> <<>>, pool |-> FALSE, directories |-> 0]
          IN IF ~KeysValid(baseconfig, tuner.args)
             THEN tuner' = [tuner EXCEPT !.rng = start,
                                         !.invocations = Append(@, failed)]
             ELSE IF made.raised
             THEN tuner' = [tuner EXCEPT !.rng = start,
                                         !.invocations =
                                             Append(@, [failed EXCEPT !.outcome = "ValueError"])]
             ELSE tuner' = [tuner EXCEPT
                               !.rng = made.pos,
                               !.invocations =
                                   Append(@, [fresh |-> fresh, outcome |-> "returned",
                                              configs |-> made.configs, order |-> order,
                                              results |-> starmap_results(made.configs, order),
                                              pool |-> TRUE, directories |-> n])]
    /\ UNCHANGED <<simulation, state_config, analysis, heap, loader>>

TunerInit ==
    /\ NoSimulation
    /\ state_config = NoConfig
    /\ analysis = NoAnalysis
    /\ heap = NoHeap
    /\ loader = NoLoader
    /\ \E file \in BaseContents, strategy \in Strategies, n \in 1..MaxCombinations,
          a \in AlgoParams, g \in GeneralParams, p \in PredictiveParams :
          tuner = [pc |-> "ready", config_file |-> file,
                   args |-> [strategy |-> strategy, num_combinations |-> n,
                             algo |-> a, general |-> g, predictive |-> p],
                   rng |-> 0, invocations |-> <<>>]

TunerNext == TuneWithStrategy

TunerSpec == TunerInit /\ [][TunerNext]_vars

-----------------------------------------------------------------------------
(* Config objects and their sections as objects on a heap.                  *)
(* A ClusterStateConfig holds its three sections as attributes, each a dict *)
(* of its own; cells is the sequence of the dicts allocated so far, and an  *)
(* object is the record of the addresses of its sections.                   *)

\* the attributes of a ClusterStateConfig that hold a section, in the order
\* __init__ assigns them
SectionAttributes == <<"algo_specific_config", "general_config", "prediction_config">>

\* the addresses of the sections of an object
Referenced(obj) == {obj[SectionAttributes[i]] : i \in 1..Len(SectionAttributes)}

\* the sections of an object, by value
SectionContents(cells, obj) ==
    [general_config |-> cells[obj.general_config],
     algo_specific_config |-> cells[obj.algo_specific_config],
     prediction_config |-> cells[obj.prediction_config]]

\* a new object for a config given by value: every section a new dict
allocate(cells, c) ==
    [cells |-> cells \o <<c.algo_specific_config, c.general_config, c.prediction_config>>,
     obj |-> [algo_specific_config |-> Len(cells) + 1,
              general_config |-> Len(cells) + 2,
              prediction_config |-> Len(cells) + 3]]

\* the mutant of deepcopy that copies the object and not what it refers to
deepcopy_Shallow(cells, obj) == [cells |-> cells, obj |-> obj]

\* copy.deepcopy(obj): every dict the object refers to is copied once (the
\* memo), so sections that are one dict in obj are one new dict in the copy
deepcopy(cells, obj) ==
    LET olds == Referenced(obj)
        memo == [a \in olds |-> Len(cells) + Cardinality({b \in olds : b <= a})]
    IN [cells |-> cells \o [i \in 1..Cardinality(olds) |->
                               cells[CHOOSE a \in olds : memo[a] = Len(cells) + i]],
        obj |-> [f \in DOMAIN obj |-> memo[obj[f]]]]

\* evaluate_config on the heap: the copy, then the item assignments into the
\* sections of the copy, in the order of the three loops
evaluate_config_at(cells, baseconfig, chosen) ==
    LET c == deepcopy(cells, baseconfig)
        m == c.obj
        c1 == [c.cells EXCEPT ![m.algo_specific_config] = set_items(@, chosen.algo)]
        c2 == [c1 EXCEPT ![m.general_config] = set_items(@, chosen.general)]
        c3 == [c2 EXCEPT ![m.prediction_config] = set_items(@, chosen.predictive)]
    IN [cells |-> c3, obj |-> m]

\* one more call of evaluate_config: its copy is allocated after the ones
\* made so far and appended to the list
append_config(made, baseconfig, chosen) ==
    LET e == evaluate_config_at(made.cells, baseconfig, chosen)
    IN [cells |-> e.cells, configs |-> Append(made.configs, e.obj)]

\* the first k calls of evaluate_config, one per element of a list of chosen
\* values; the test on the length makes TLC evaluate the list made so far
\* before the next call, not nested inside it
RECURSIVE evaluate_all(_, _, _, _)
evaluate_all(cells, baseconfig, choices, k) ==
    IF k = 0 THEN [cells |-> cells, configs |-> <<>>]
    ELSE LET made == evaluate_all(cells, baseconfig, choices, k - 1)
         IN IF Len(made.configs) = k - 1
            THEN append_config(made, baseconfig, choices[k])
            ELSE made

\* the arguments of the calls of evaluate_config with strategy grid
grid_choices(args) ==
    LET A == product(args.algo)
        G == product(args.general)
        P == product(args.predictive)
    IN [j \in 1..(Len(A) * Len(G) * Len(P)) |->
           [algo |-> A[((j - 1) \div (Len(G) * Len(P))) + 1],
            general |-> G[(((j - 1) \div Len(P)) % Len(G)) + 1],
            predictive |-> P[((j - 1) % Len(P)) + 1]]]

\* the arguments of the calls of evaluate_config with strategy random
RECURSIVE random_choices(_, _, _)
random_choices(pos, args, n) ==
    IF n = 0 THEN <<>>
    ELSE LET a == choose_params(pos, args.algo)
             g == choose_params(a.pos, args.general)
             p == choose_params(g.pos, args.predictive)
         IN <<[algo |-> a.chosen, general |-> g.chosen, predictive |-> p.chosen]>>
                \o random_choices(p.pos, args, n - 1)

\* item assignments a holder of a configuration makes after the generation
Writes ==
    {[section |-> "general_config", key |-> "window", value |-> PyInt(99)],
     [section |-> "algo_specific_config", key |-> "addend", value |-> PyInt(9)],
     [section |-> "prediction_config", key |-> "enabled", value |-> PyBool(TRUE)]}

\* tune_with_strategy up to the list of modified configs: the base config is
\* built from the file, the keys are checked, the configurations generated
GenerateConfigs ==
    /\ heap.pc = "called"
    /\ LET baseconfig == validate_config(load_from_dict(heap.config_file))
           b == allocate(<<>>, baseconfig)
           choices == IF heap.args.strategy = "grid" THEN grid_choices(heap.args)
                      ELSE random_choices(0, heap.args, heap.args.num_combinations)
           made == evaluate_all(b.cells, b.obj, choices, Len(choices))
       IN IF ~KeysValid(baseconfig, heap.args) \/ heap.args.strategy \notin {"grid", "random"}
          THEN heap' = [heap EXCEPT !.pc = "raised", !.cells = b.cells, !.base = b.obj,
                                    !.built = b.cells]
          ELSE heap' = [heap EXCEPT !.pc = "generated", !.cells = made.cells,
                                    !.base = b.obj, !.built = b.cells,
                                    !.configs = made.configs]
    /\ UNCHANGED <<simulation, state_config, tuner, analysis, loader>>

\* config[section][key] = value on one of the generated configurations, or
\* on the base config (target 0)
WriteParameter ==
    /\ heap.pc = "generated"
    /\ \E target \in 0..Len(heap.configs), w \in Writes :
          LET obj == IF target = 0 THEN heap.base ELSE heap.configs[target]
          IN heap' = [heap EXCEPT
                         !.pc = "written",
                         !.cells = [@ EXCEPT ![obj[w.section]] = SetItem(@, w.key, w.value)],
                         !.before = heap.cells,
                         !.target = target,
                         !.write = w]
    /\ UNCHANGED <<simulation, state_config, tuner, analysis, loader>>

CopyInit ==
    /\ NoSimulation
    /\ state_config = NoConfig
    /\ tuner = NoTuner
    /\ analysis = NoAnalysis
    /\ loader = NoLoader
    /\ \E file \in BaseContents, strategy \in Strategies, n \in 1..MaxCombinations,
          a \in AlgoParams, g \in GeneralParams, p \in PredictiveParams :
          heap = [pc |-> "called", config_file |-> file,
                  args |-> [strategy |-> strategy, num_combinations |-> n,
                            algo |-> a, general |-> g, predictive |-> p],
                  cells |-> <<>>, base |-> <<>>, built |-> <<>>, configs |-> <<>>,
                  before |-> <<>>, target |-> 0, write |-> <<>>]

CopyNext == GenerateConfigs \/ WriteParameter

CopySpec == CopyInit /\ [][CopyNext]_vars

-----------------------------------------------------------------------------
(* The construction of a provider from the CSV files of a data directory.   *)

MaxFiles == 2
MaxFileRows == 2

\* the timestamps and the readings of the rows of a file
RowTimes == {0, SecondsPerMinute}
RowCpus == {5, 12}

\* the rows of a file, in the order of its lines
FileRows ==
    UNION {[1..n -> [time : RowTimes, cpu : RowCpus]] : n \in 0..MaxFileRows}

\* a CSV file of the directory: whether its name ends with perf_event_log,
\* whether pandas reads it with the columns wanted, and its rows
CsvFiles == [perf_event_log : BOOLEAN, readable : BOOLEAN, rows : FileRows]

\* list_perf_event_log_files: the files of the glob whose stem ends with
\* perf_event_log, in the order the glob yields them
RECURSIVE list_perf_event_log_files(_)
list_perf_event_log_files(files) ==
    IF files = <<>> THEN <<>>
    ELSE (IF files[1].perf_event_log THEN <<files[1]>> ELSE <<>>)
             \o list_perf_event_log_files(Tail(files))

\* the loop of FileClusterStateProvider.process_data: the frames of the files
\* read are concatenated in the order of the paths; a file that raises is
\* skipped
RECURSIVE concat_frames(_)
concat_frames(csv_paths) ==
    IF csv_paths = <<>> THEN <<>>
    ELSE (IF csv_paths[1].readable THEN csv_paths[1].rows ELSE <<>>)
             \o concat_frames(Tail(csv_paths))

\* FileClusterStateProvider.process_data; columns tells whether the frame
\* has a column time, which it has once one file was read
FileClusterStateProvider_process_data(csv_paths) ==
    [columns |-> \E i \in 1..Len(csv_paths) : csv_paths[i].readable,
     rows |-> concat_frames(csv_paths)]

\* SimulatedBaseClusterStateProvider.__init__ on the files of data_dir
ConstructProvider ==
    /\ loader.pc = "directory"
    /\ LET csv_paths == list_perf_event_log_files(loader.files)
           frame == FileClusterStateProvider_process_data(csv_paths)
           raised(e) == [loader EXCEPT !.pc = e]
       IN loader' =
             IF csv_paths = <<>> THEN raised("FileNotFoundError")
             ELSE IF ~frame.columns THEN raised("KeyError")
             ELSE IF frame.rows = <<>> THEN raised("IndexError")
             ELSE [loader EXCEPT !.pc = "constructed",
                                 !.recorded_data = frame.rows,
                                 !.start_time = frame.rows[1].time,
                                 !.end_time = frame.rows[Len(frame.rows)].time,
                                 !.current_time = frame.rows[1].time,
                                 !.last_scaling_time = frame.rows[1].time]
    /\ UNCHANGED <<simulation, state_config, tuner, analysis, heap>>

LoaderInit ==
    /\ NoSimulation
    /\ state_config = NoConfig
    /\ tuner = NoTuner
    /\ analysis = NoAnalysis
    /\ heap = NoHeap
    /\ \E n \in 0..MaxFiles :
          \E files \in [1..n -> CsvFiles] :
              loader = [pc |-> "directory", files |-> files, recorded_data |-> <<>>,
                        start_time |-> None, end_time |-> None,
                        current_time |-> None, last_scaling_time |-> None]

LoaderNext == ConstructProvider

LoaderSpec == LoaderInit /\ [][LoaderNext]_vars

-----------------------------------------------------------------------------
(* Properties *)

within_limits(x) == Le(config.min_cpu_limit, x) /\ Le(x, config.max_cpu_limit)

(* C1: any two calls of scale that returned True, made with non-decreasing   *)
(* time_now (by a caller or by the replay loop), have time_now values at     *)
(* least recovery_time * 60 seconds apart.                                   *)
C1_AcceptedScalingsSpaced ==
    \A i, j \in 1..Len(accepted) :
        i < j => accepted[j] - accepted[i] >= config.recovery_time * SecondsPerMinute

\* the loop has just had its second scaling accepted
C1_Witness == last.op = "step" /\ last.scaled /\ last.ret /\ Len(accepted) >= 2

(* C2: whenever scale returns True under a config with min <= max, the       *)
(* provider's limit afterwards is new_limit clamped into [min, max]: min     *)
(* when new_limit is below min, max when it is above max, new_limit          *)
(* otherwise; and so it lies within [min, max].                              *)
C2_AcceptedLimitClamped ==
    (last.scaled /\ last.ret /\ config.min_cpu_limit <= config.max_cpu_limit) =>
        /\ provider.curr_cpu_limit = ClampedLimit(last.new_limit)
        /\ within_limits(provider.curr_cpu_limit)

(* C3: in every state of a run, from the seeding of the initial limit to the *)
(* end of the loop, the provider's limit lies within [min, max], whatever    *)
(* initial_cpu_limit the caller passed.                                      *)
C3_LimitWithinBounds ==
    pc \in {"loop", "done", "aborted"} => within_limits(provider.curr_cpu_limit)

(* C4: a call scale(new_limit, now) with new_limit different from the        *)
(* current limit is accepted (returns True, sets the limit to the clamped    *)
(* new_limit, records now as the scaler's last_scaling_time) if and only if  *)
(* no scaling was accepted before or the seconds elapsed since the last      *)
(* accepted one exceed recovery_time * 60, for every non-negative elapsed    *)
(* duration.                                                                 *)
C4_AcceptedIffRecovered ==
    (last.scaled /\ Neq(last.new_limit, last.pre_limit)) =>
        /\ last.ret <=> (last.pre_last = None
                            \/ last.time_now - last.pre_last
                                   > config.recovery_time * SecondsPerMinute)
        /\ last.ret => /\ provider.curr_cpu_limit = ClampedLimit(last.new_limit)
                       /\ scaler.last_scaling_time = last.time_now

(* C5: a call of scale that returns False leaves the provider's limit, the   *)
(* provider's last_scaling_time and the scaler's last_scaling_time as they   *)
(* were.                                                                     *)
C5_RejectedScaleChangesNothing ==
    [][(last'.scaled /\ ~last'.ret) =>
          /\ provider'.curr_cpu_limit = provider.curr_cpu_limit
          /\ provider'.last_scaling_time = provider.last_scaling_time
          /\ scaler'.last_scaling_time = scaler.last_scaling_time]_vars

\* a scaling to a different limit has just been suppressed by the cooldown
C5_Witness ==
    /\ last.scaled /\ ~last.ret
    /\ Neq(last.new_limit, last.pre_limit)
    /\ last.time_now # last.pre_last

(* C6: the provider's current_time never decreases, and every executed step  *)
(* of the loop calls advance_time exactly once, which adds exactly lag       *)
(* minutes, lag >= 1, to current_time.                                       *)
C6_EveryStepAdvancesByLag ==
    [][/\ provider'.current_time >= provider.current_time
       /\ (pc = "loop" /\ LoopCondition) =>
              (/\ last'.advanced = 1
               /\ config.lag >= 1
               /\ provider'.current_time
                      = provider.current_time + config.lag * SecondsPerMinute)]_vars

(* C7: the loop of run_simulation ends: it runs a step exactly while         *)
(* current_time + lag < end_time, stops at the first state where             *)
(* current_time + lag >= end_time, and then flushes the trace and computes   *)
(* the metrics exactly once.                                                 *)
C7_RunEndsWithOneFlush ==
    /\ pc = "loop" => (stats.flushes = 0 /\ stats.metrics = 0)
    /\ pc \in {"done", "aborted"} =>
           (~LoopCondition /\ stats.flushes = 1 /\ stats.metrics = 1)

(* C8: at the end of a run the decision log has as many rows as there were   *)
(* iterations in which get_next_recorded_data returned a window of at least  *)
(* two observations; the other iterations wrote no row.                      *)
C8_RowsCountFullWindows ==
    pc = "done" => Len(decisions) = stats.windows_ge2

(* C9: whenever recommender.run is invoked its window has at least two       *)
(* observations; a step whose window is empty or has fewer than two only     *)
(* advances the time, calling neither the recommender nor the scaler.        *)
C9_RecommenderSeesTwoObservations ==
    last.op = "step" =>
        /\ last.recommended => last.window >= 2
        /\ last.window < 2 =>
               (~last.recommended /\ ~last.scaled /\ last.advanced = 1)

(* C10: when recommender.run raises, the run is not aborted: the step counts *)
(* as a step without decision (no scaling, limit unchanged), current_time    *)
(* advances by lag, and the loop goes on.                                    *)
C10_RecommenderFailureSurvived ==
    (last.op = "step" /\ last.recommended /\ last.raised) =>
        (pc = "loop" /\ last.advanced = 1 /\ ~last.scaled)

\* the stored observations a read at the provider's current time slices
CurrentSlice ==
    Slice(recorded_data, provider.current_time - window_seconds, provider.current_time)

ObservationsWithin(lo, hi) ==
    LET idx == SetToSeq({i \in 1..Len(recorded_data) :
                            lo <= recorded_data[i].time /\ recorded_data[i].time <= hi})
    IN [k \in 1..Len(idx) |-> recorded_data[idx[k]]]

(* C12 as stated: a window returned by get_next_recorded_data at time T is   *)
(* exactly the trace observations with T - window <= t <= T, in ascending    *)
(* time order, none of them omitted and none from outside.                   *)
C12_WindowIsTheRange ==
    [][(pc = "loop" /\ LoopCondition /\ last'.window # None) =>
          last'.data = ObservationsWithin(provider.current_time - window_seconds,
                                          provider.current_time)]_vars

(* C12 amended: a window returned at time T is, in ascending time order, the *)
(* trace observations with T - window <= t <= T when there are two of them,  *)
(* and when there are more than two, those of them whose cpu does not exceed *)
(* max_cpu_limit; it contains no observation from outside the range.         *)
C12_WindowIsTheFilteredRange ==
    [][(pc = "loop" /\ LoopCondition /\ last'.window # None) =>
          LET range == ObservationsWithin(provider.current_time - window_seconds,
                                          provider.current_time)
          IN last'.data = IF Len(range) > 2
                          THEN SelectSeq(range, LAMBDA o : o.cpu <= config.max_cpu_limit)
                          ELSE range]_vars

\* a window was returned whose first and last observation sit on the two ends
C12_Witness ==
    /\ last.op = "step" /\ last.window # None /\ Len(last.data) >= 2
    /\ last.data[1].time = provider.current_time - lag_seconds - window_seconds
    /\ last.data[Len(last.data)].time = provider.current_time - lag_seconds

(* C13: after get_next_recorded_data has been called at time T under limit   *)
(* L, every observation of the stored trace with timestamp in [T - lag, T]   *)
(* has cpu <= L, the observations outside that range are as they were, and   *)
(* the lowered values stay in the trace from then on.                        *)
C13_RecentObservationsClampedToLimit ==
    [][(pc = "loop" /\ LoopCondition) =>
          /\ Len(recorded_data') = Len(recorded_data)
          /\ \A i \in 1..Len(recorded_data) :
                IF /\ provider.current_time - lag_seconds <= recorded_data[i].time
                   /\ recorded_data[i].time <= provider.current_time
                THEN /\ recorded_data'[i].time = recorded_data[i].time
                     /\ Le(recorded_data'[i].cpu, provider.curr_cpu_limit)
                ELSE recorded_data'[i] = recorded_data[i]]_vars

\* the unrounded recommendations for a window, each as <<numerator, denominator>>
\* in quarter cores; the recommendation is the largest of them
Unrounded(data) ==
    IF algorithm = "additive"
    THEN {<<addend + SeqMax(CpuOf(data)), 1>>}
    ELSE { <<multiplier_num * SeqSum(SubSeq(CpuOf(data), j, i)), multiplier_den * (i - j + 1)>> :
             <<i, j>> \in { <<i, IF i - config.window + 1 > 1 THEN i - config.window + 1 ELSE 1>> :
                              i \in 1..Len(data) } }

(* C14: every NEW_LIMIT a built-in recommender has written to the decision   *)
(* log is a multiple of half a core, the smallest one that is not below the  *)
(* unrounded recommendation (max cpu + addend, or multiplier times the       *)
(* largest trailing rolling mean).                                           *)
C14_NewLimitRoundedUpToHalfCore ==
    (last.op = "step" /\ last.recommended /\ ~last.raised) =>
        LET x == decisions[Len(decisions)].new_limit
        IN /\ x # NaN
           /\ x % 2 = 0
           /\ \A u \in Unrounded(last.data) : x * u[2] >= u[1]
           /\ \E u \in Unrounded(last.data) : (x - 2) * u[2] < u[1]

\* the trace has one observation per minute and no gap
OnePerMinute ==
    \A i \in 1..(Len(recorded_data) - 1) :
        recorded_data[i + 1].time - recorded_data[i].time = SecondsPerMinute

(* C15: for a trace with one observation per minute and no gaps, every step  *)
(* after the one that wrote the first decision row writes a row too, and the *)
(* LATEST_TIME of a row is exactly lag minutes after that of the row before. *)
C15_RowsEveryLagMinutes ==
    [][(OnePerMinute /\ pc = "loop" /\ LoopCondition /\ Len(decisions) >= 1) =>
          /\ Len(decisions') = Len(decisions) + 1
          /\ decisions'[Len(decisions')].latest_time
                 = decisions[Len(decisions)].latest_time + lag_seconds]_vars

(* C16: for the same trace and config run_simulation_with_progress executes  *)
(* the steps run_simulation executes: it ends the same way after as many     *)
(* steps, with the same decision rows, the same provider (limit, times) and  *)
(* scaler state and the same flush, and its k-th yield, after the k-th step, *)
(* is k * lag / (end_time - start_time).                                     *)
C16_ProgressRunEqualsPlainRun ==
    progress.pc \in {"done", "aborted"} =>
        /\ progress.pc = pc
        /\ progress.steps = stats.iterations
        /\ progress.decisions = decisions
        /\ progress.provider = provider
        /\ progress.scaler = scaler
        /\ progress.flushes = stats.flushes
        /\ Len(progress.yielded) = (IF pc = "done" THEN stats.iterations
                                    ELSE stats.iterations - 1)
        /\ \A k \in 1..Len(progress.yielded) :
              progress.yielded[k] = <<k * lag_seconds, end_time - start_time>>

\* a generator has been drained after three steps that scaled and wrote rows
C16_Witness ==
    /\ progress.pc = "done"
    /\ Len(progress.yielded) >= 3
    /\ Len(progress.decisions) >= 2
    /\ progress.scaler.last_scaling_time # None

(* C17: once its loop has ended, run_simulation_with_progress computes the   *)
(* final metrics, as run_simulation does, and emits them as its last value.  *)
C17_GeneratorEndsWithMetrics ==
    progress.pc = "done" => (progress.metrics = 1 /\ progress.metrics = stats.metrics)

\* the simulation of configuration c fails: no trace data, an unknown
\* algorithm, or an exception out of run_simulation
SimulationFails(c) ==
    ~sweep.data_present \/ ~sweep.algorithm_known \/ sweep.raises[c]

(* C18: tune_with_strategy returns one tuple for every generated             *)
(* configuration; once a worker is through with a configuration, its tuple   *)
(* is (config, None) when the simulation failed, for whatever reason, and    *)
(* (config, metrics) when it did not.                                        *)
C18_OneTuplePerConfiguration ==
    /\ sweep.pc = "returned" =>
          \A c \in 1..sweep.configs : sweep.results[c] # "pending"
    /\ \A c \in 1..sweep.configs :
          sweep.ended[c] =>
              sweep.results[c] = (IF SimulationFails(c) THEN "none" ELSE "metrics")

(* C19: whatever failed inside the workers, once every simulation of the     *)
(* sweep has finished or failed nothing keeps starmap waiting: it has the    *)
(* result of every task, so tune_with_strategy returns the list.             *)
C19_SweepReturnsOnceWorkersEnded ==
    (sweep.pc = "mapping" /\ \A c \in 1..sweep.configs : sweep.ended[c]) =>
        \A c \in 1..sweep.configs : sweep.results[c] # "pending"

(* C20: every file written on behalf of a configuration's simulation, log    *)
(* files included, is written inside that configuration's own target         *)
(* directory, in whichever worker process and after whichever other          *)
(* simulation it runs.                                                       *)
C20_WritesStayInOwnDirectory ==
    \A f \in sweep.writes : f.dir = target_dir(f.config)

\* value is an int above zero
IsPositiveInteger(value) == value[1] = "int" /\ value[2] > 0

(* C26: once a ClusterStateConfig is constructed, window, lag,               *)
(* max_cpu_limit, min_cpu_limit and recovery_time are all present in         *)
(* general_config and each is a positive integer, whatever was supplied.     *)
C26_GeneralConfigPositiveIntegers ==
    state_config.pc = "constructed" =>
        \A key \in general_required_keys :
            /\ key \in DOMAIN state_config.general_config
            /\ IsPositiveInteger(state_config.general_config[key])

\* the general_config section that was supplied
Supplied == GetSection(state_config.content, "general_config")

\* both limits were supplied as integers
LimitsSupplied ==
    /\ {"min_cpu_limit", "max_cpu_limit"} \subseteq DOMAIN Supplied
    /\ Supplied["min_cpu_limit"][1] = "int"
    /\ Supplied["max_cpu_limit"][1] = "int"

\* both limits hold their defaults
LimitsAreDefaults ==
    /\ state_config.general_config["min_cpu_limit"] = PyInt(DEFAULT_MIN_CPU_LIMIT)
    /\ state_config.general_config["max_cpu_limit"] = PyInt(DEFAULT_MAX_CPU_LIMIT)

\* min_cpu_limit <= max_cpu_limit in the constructed config
LimitsOrdered ==
    state_config.general_config["min_cpu_limit"][2]
        <= state_config.general_config["max_cpu_limit"][2]

(* C27 as stated: after validation min_cpu_limit <= max_cpu_limit; supplied  *)
(* values with min_cpu_limit > max_cpu_limit are both reset to 1 and 20, and *)
(* supplied positive integers with min_cpu_limit <= max_cpu_limit are kept.  *)
C27_SuppliedLimitsOrderedOrReset ==
    state_config.pc = "constructed" =>
        /\ LimitsOrdered
        /\ (LimitsSupplied
              /\ Supplied["min_cpu_limit"][2] > Supplied["max_cpu_limit"][2])
               => LimitsAreDefaults
        /\ (LimitsSupplied
              /\ IsPositiveInteger(Supplied["min_cpu_limit"])
              /\ IsPositiveInteger(Supplied["max_cpu_limit"])
              /\ Supplied["min_cpu_limit"][2] <= Supplied["max_cpu_limit"][2])
               => /\ state_config.general_config["min_cpu_limit"] = Supplied["min_cpu_limit"]
                  /\ state_config.general_config["max_cpu_limit"] = Supplied["max_cpu_limit"]

\* the supplied value of key, or its default when it is missing or is no
\* positive integer
Effective(key) ==
    IF key \in DOMAIN Supplied /\ IsPositiveInteger(Supplied[key])
    THEN Supplied[key]
    ELSE defaults.general_config[key]

(* C27 amended: after validation min_cpu_limit <= max_cpu_limit. The limits  *)
(* are compared after a missing or non-positive-integer one has been         *)
(* replaced by its default: if then min_cpu_limit > max_cpu_limit both are   *)
(* reset to 1 and 20, else both are kept as they then are.                   *)
C27_LimitsOrderedAfterDefaults ==
    state_config.pc = "constructed" =>
        /\ LimitsOrdered
        /\ IF Effective("min_cpu_limit")[2] > Effective("max_cpu_limit")[2]
           THEN LimitsAreDefaults
           ELSE /\ state_config.general_config["min_cpu_limit"] = Effective("min_cpu_limit")
                /\ state_config.general_config["max_cpu_limit"] = Effective("max_cpu_limit")

\* a config was built from positive limits in the wrong order, and one from
\* a minimum above the default that replaced a negative maximum
C27_Witness ==
    /\ state_config.pc = "constructed"
    /\ LimitsSupplied
    /\ Supplied["min_cpu_limit"] = PyInt(30)
    /\ Supplied["max_cpu_limit"] \in {PyInt(25), PyInt(-3)}
    /\ LimitsAreDefaults

\* the three sections
Sections == {"general_config", "algo_specific_config", "prediction_config"}

(* C28 as stated: what to_json writes after a load equals the loaded content *)
(* in each of the three sections.                                            *)
C28_RoundTripEqualsOriginal ==
    state_config.saved =>
        \A section \in Sections :
            state_config.written[section] = GetSection(state_config.content, section)

\* validation has nothing to add to or to replace in the content
NeedsNoRepair ==
    LET p == GetSection(state_config.content, "prediction_config")
    IN /\ general_required_keys \subseteq DOMAIN Supplied
       /\ \A key \in {"window", "lag", "max_cpu_limit", "min_cpu_limit"} :
              IsPositiveInteger(Supplied[key])
       /\ Supplied["min_cpu_limit"][2] <= Supplied["max_cpu_limit"][2]
       /\ "enabled" \in DOMAIN p
       /\ p["enabled"][1] = "bool"
       /\ Truthy(p["enabled"]) => prediction_required_keys \subseteq DOMAIN p

\* the keys validate_config knows in a section
Recognised(section) ==
    IF section = "general_config" THEN general_required_keys
    ELSE IF section = "prediction_config" THEN prediction_required_keys \cup {"enabled"}
    ELSE {}

(* C28 amended: what to_json writes after a load keeps every key of the      *)
(* loaded content, with its value when the program does not recognise the    *)
(* key, and equals the loaded content in each of the three sections when     *)
(* the content holds every required key with a valid value (validation adds  *)
(* missing keys and replaces invalid values before anything is written).     *)
C28_RoundTripOfValidContent ==
    state_config.saved =>
        /\ \A section \in Sections :
              LET original == GetSection(state_config.content, section)
              IN \A key \in DOMAIN original :
                    /\ key \in DOMAIN state_config.written[section]
                    /\ key \notin Recognised(section) =>
                          state_config.written[section][key] = original[key]
        /\ NeedsNoRepair =>
              \A section \in Sections :
                  state_config.written[section] = GetSection(state_config.content, section)

\* a complete, valid file with an algorithm parameter and an unknown key
\* has been loaded and written back
C28_Witness ==
    /\ state_config.saved
    /\ NeedsNoRepair
    /\ "note" \in DOMAIN Supplied
    /\ "addend" \in DOMAIN GetSection(state_config.content, "algo_specific_config")
    /\ "addend" \in DOMAIN state_config.written["algo_specific_config"]

(* C29: the provider the simulator constructs is the predictive one exactly  *)
(* when prediction_config.enabled is true, and the non-predictive one when   *)
(* enabled is false or absent.                                               *)
C29_PredictiveIffEnabled ==
    state_config.provider # NoProvider =>
        LET p == GetSection(state_config.content, "prediction_config")
            enabled == "enabled" \in DOMAIN p /\ Truthy(p["enabled"])
        IN /\ ~state_config.provider.raised
           /\ state_config.provider.class =
                  (IF enabled THEN "SimulatedInMemoryPredictiveClusterStateProvider"
                   ELSE "SimulatedInMemoryClusterStateProvider")

\* the adjacent row pairs of the merged log whose CURR_LIMIT values differ
ChangedPairs ==
    {i \in 1..(Len(analysis.merged) - 1) :
        analysis.merged[i].curr_limit # analysis.merged[i + 1].curr_limit}

(* C30: the num_scalings that calculate_metrics reports for a log is the     *)
(* number of adjacent row pairs whose CURR_LIMIT values differ, so 0 for a   *)
(* log whose CURR_LIMIT never changes.                                       *)
C30_NumScalingsCountsChangedPairs ==
    (analysis.pc = "calculated" /\ ~analysis.metrics.empty) =>
        analysis.metrics.num_scalings = Cardinality(ChangedPairs)

\* the base config tune_with_strategy reads from config_path
BaseConfig == validate_config(load_from_dict(tuner.config_file))

\* the keys of a dictionary of parameters to tune
TunedKeys(params) == {params[i].key : i \in 1..Len(params)}

\* the candidate list of a key, as a set
Candidates(params, key) ==
    UNION {{params[i].values[j] : j \in 1..Len(params[i].values)} :
              i \in {x \in 1..Len(params) : params[x].key = key}}

\* the Cartesian product of the candidate lists of a dictionary: one value
\* per key; the one empty choice for the empty dictionary
Assignments(params) ==
    {f \in [TunedKeys(params) -> UNION {Candidates(params, k) : k \in TunedKeys(params)}] :
        \A k \in TunedKeys(params) : f[k] \in Candidates(params, k)}

\* a section with the chosen values in place of its own
Overridden(section, f) ==
    [k \in DOMAIN section \cup DOMAIN f |-> IF k \in DOMAIN f THEN f[k] ELSE section[k]]

\* the base config with every tuned parameter at its chosen value, in its own section
ConfigWith(fa, fg, fp) ==
    [general_config |-> Overridden(BaseConfig.general_config, fg),
     algo_specific_config |-> Overridden(BaseConfig.algo_specific_config, fa),
     prediction_config |-> Overridden(BaseConfig.prediction_config, fp)]

\* every configuration the three dictionaries allow
Combinations ==
    {ConfigWith(fa, fg, fp) : fa \in Assignments(tuner.args.algo),
                              fg \in Assignments(tuner.args.general),
                              fp \in Assignments(tuner.args.predictive)}

\* the calls of tune_with_strategy that got to the end
Returned == {i \in 1..Len(tuner.invocations) : tuner.invocations[i].outcome = "returned"}

C22_RandomMakesNumCombinations ==
    (tuner.pc = "ready" /\ tuner.args.strategy = "random") =>
        \A i \in Returned :
            LET inv == tuner.invocations[i]
            IN /\ Len(inv.configs) = tuner.args.num_combinations
               /\ Len(inv.results) = tuner.args.num_combinations
               /\ \A j \in 1..Len(inv.configs) : inv.configs[j] \in Combinations

\* two random configurations that differ, from lists of two and three values
C22_Witness ==
    /\ tuner.pc = "ready"
    /\ tuner.args.strategy = "random"
    /\ tuner.args.num_combinations = 2
    /\ tuner.args.general # <<>>
    /\ \E i \in Returned :
          /\ Len(tuner.invocations[i].configs) = 2
          /\ tuner.invocations[i].configs[1] # tuner.invocations[i].configs[2]

(* C23: any two calls of tune_with_strategy with strategy random and the     *)
(* same arguments sample the same sequence of configurations, be they in     *)
(* different processes or one after the other in the same process.           *)
C23_RandomExpansionDeterministic ==
    (tuner.pc = "ready" /\ tuner.args.strategy = "random") =>
        \A i, j \in Returned :
            tuner.invocations[i].configs = tuner.invocations[j].configs

\* a key of one of the three dictionaries that its section of the base
\* config does not hold
UnknownKey ==
    \/ \E k \in TunedKeys(tuner.args.algo) : k \notin DOMAIN BaseConfig.algo_specific_config
    \/ \E k \in TunedKeys(tuner.args.general) : k \notin DOMAIN BaseConfig.general_config
    \/ \E k \in TunedKeys(tuner.args.predictive) : k \notin DOMAIN BaseConfig.prediction_config

(* C24: when a key of the three dictionaries is absent from its section of   *)
(* the base config, tune_with_strategy fails, with no configuration          *)
(* generated, no pool of workers started and no directory created.           *)
C24_UnknownKeyFailsFirst ==
    (tuner.pc = "ready" /\ UnknownKey) =>
        \A i \in 1..Len(tuner.invocations) :
            LET inv == tuner.invocations[i]
            IN /\ inv.outcome = "AssertionError"
               /\ inv.configs = <<>>
               /\ ~inv.pool
               /\ inv.directories = 0
               /\ inv.results = <<>>

\* a call with the predictive parameter waiting_before_predict on a base
\* config whose prediction section holds "enabled" only
C24_Witness ==
    /\ tuner.pc = "ready"
    /\ UnknownKey
    /\ tuner.args.algo = <<>>
    /\ tuner.args.predictive # <<>>
    /\ Len(tuner.invocations) >= 1

\* the first candidate value of every key of a dictionary
FirstOf(params) ==
    [k \in TunedKeys(params) |->
         params[CHOOSE i \in 1..Len(params) : params[i].key = k].values[1]]

(* C25: the list tune_with_strategy returns is in the order the              *)
(* configurations were generated in, whatever order the workers finish in:   *)
(* result i is that of the i-th configuration, and the first result of a     *)
(* grid is the combination of the first candidate value of every parameter.  *)
C25_ResultsInGenerationOrder ==
    tuner.pc = "ready" =>
        \A i \in Returned :
            LET inv == tuner.invocations[i]
            IN /\ Len(inv.results) = Len(inv.configs)
               /\ \A k \in 1..Len(inv.results) :
                     inv.results[k].task = k /\ inv.results[k].config = inv.configs[k]
               /\ (tuner.args.strategy = "grid" /\ inv.results # <<>>) =>
                     inv.results[1].config =
                         ConfigWith(FirstOf(tuner.args.algo), FirstOf(tuner.args.general),
                                    FirstOf(tuner.args.predictive))

\* a grid whose last task completed first
C25_Witness ==
    /\ tuner.pc = "ready"
    /\ tuner.args.strategy = "grid"
    /\ \E i \in Returned :
          /\ Len(tuner.invocations[i].results) >= 4
          /\ tuner.invocations[i].order[1] = Len(tuner.invocations[i].results)

\* read_data on the rows of decisions.csv: of the rows that share a
\* LATEST_TIME the first is kept (the timestamps are whole minutes)
read_data(rows) ==
    LET idx == SetToSeq({i \in 1..Len(rows) :
                            \A j \in 1..(i - 1) : rows[j].latest_time # rows[i].latest_time})
    IN [k \in 1..Len(idx) |-> rows[idx[k]]]

\* the last element of a time-ordered sequence that is not after t
LatestUpTo(times, t) ==
    CHOOSE i \in 1..Len(times) :
        /\ times[i] <= t
        /\ \A j \in 1..Len(times) : times[j] <= t => j <= i

(* process_data: decisions and usage are resampled to one row per minute,    *)
(* forward filled, and the usage is merged onto the decisions; an empty      *)
(* decision log gives an empty merged log.                                   *)
process_data(decision_df, perf_df) ==
    IF Len(decision_df) = 0 THEN <<>>
    ELSE LET first == decision_df[1].latest_time
             final == decision_df[Len(decision_df)].latest_time
             dtimes == [i \in 1..Len(decision_df) |-> decision_df[i].latest_time]
             ptimes == [i \in 1..Len(perf_df) |-> perf_df[i].time]
         IN [i \in 1..((final - first) \div SecondsPerMinute + 1) |->
                LET t == first + SecondsPerMinute * (i - 1)
                IN [curr_limit |-> decision_df[LatestUpTo(dtimes, t)].curr_limit,
                    cpu_usage |-> perf_df[LatestUpTo(ptimes, t)].cpu]]

\* get_metrics of a run whose decision rows are given
get_metrics(rows) == calculate_metrics(process_data(read_data(rows), recorded_data))

(* C31: a run in which get_next_recorded_data never returned a window (a     *)
(* trace with too few observations, for one) ends without an error, has      *)
(* written no decision row, and run_simulation returns the empty metrics     *)
(* record.                                                                   *)
C31_NoWindowRunReturnsEmptyMetrics ==
    (pc \in {"done", "aborted"} /\ stats.windows = 0) =>
        /\ pc = "done"
        /\ ~last.raised
        /\ decisions = <<>>
        /\ get_metrics(decisions).empty

\* set_cpu_limit is called in this step: by the seeding, or by an accepted scale
SetCpuLimitCalled == (pc = "constructed" /\ pc' = "loop") \/ (last'.scaled /\ last'.ret)

(* C33: a call set_cpu_limit(x) leaves curr_cpu_limit = x; it sets the       *)
(* provider's last_scaling_time to current_time when x differs from the      *)
(* limit before, and leaves it as it was when not; current_time (advanced    *)
(* by the loop before it calls scale) and the trace are not changed by it.   *)
C33_SetCpuLimitEffect ==
    [][SetCpuLimitCalled =>
          LET x == IF pc = "constructed" THEN initial_cpu_limit
                   ELSE ClampedLimit(last'.new_limit)
              at == IF pc = "loop" THEN provider.current_time + lag_seconds
                    ELSE provider.current_time
          IN /\ provider'.curr_cpu_limit = x
             /\ provider'.last_scaling_time =
                    (IF Neq(x, provider.curr_cpu_limit) THEN at
                     ELSE provider.last_scaling_time)
             /\ provider'.current_time = at
             /\ recorded_data' = recorded_data]_vars

\* an accepted scaling, later than the seeding, has set the limit to the
\* value it had: the recommendation was clamped to it
C33_Witness ==
    /\ last.op = "step" /\ last.scaled /\ last.ret
    /\ ClampedLimit(last.new_limit) = last.pre_limit
    /\ provider.curr_cpu_limit = last.pre_limit
    /\ provider.last_scaling_time < provider.current_time

(* C34: at every point of a run, once the scaler has accepted a scaling, its *)
(* last_scaling_time equals the provider's last_scaling_time, the time at    *)
(* which curr_cpu_limit last changed.                                        *)
C34_CooldownAnchoredAtLastChange ==
    (pc \in {"loop", "done", "aborted"} /\ scaler.last_scaling_time # None) =>
        scaler.last_scaling_time = provider.last_scaling_time

(* C36: the CURR_LIMIT of a decision row is the limit in force before the    *)
(* scaling of its own step: for consecutive rows i and i + 1, the CURR_LIMIT *)
(* of row i + 1 is the NEW_LIMIT of row i clamped into [min_cpu_limit,       *)
(* max_cpu_limit] when the scale call of step i was accepted, and the        *)
(* CURR_LIMIT of row i when it was not.                                      *)
C36_CurrLimitIsLimitBeforeScaling ==
    /\ Len(stats.rets) = Len(decisions)
    /\ \A i \in 1..(Len(decisions) - 1) :
          decisions[i + 1].curr_limit =
              (IF stats.rets[i] THEN ClampedLimit(decisions[i].new_limit)
               ELSE decisions[i].curr_limit)
    /\ (pc \in {"loop", "done", "aborted"} /\ decisions # <<>>) =>
          provider.curr_cpu_limit =
              (IF stats.rets[Len(decisions)]
               THEN ClampedLimit(decisions[Len(decisions)].new_limit)
               ELSE decisions[Len(decisions)].curr_limit)

\* three rows: an accepted scaling whose recommendation was clamped, then a
\* step whose scaling was not accepted
C36_Witness ==
    /\ Len(decisions) >= 3
    /\ \E i \in 1..(Len(decisions) - 2) :
          /\ stats.rets[i] /\ ~stats.rets[i + 1]
          /\ decisions[i].new_limit # ClampedLimit(decisions[i].new_limit)
          /\ decisions[i + 1].curr_limit # decisions[i].curr_limit
          /\ decisions[i + 1].new_limit # decisions[i + 1].curr_limit

C38_SeedingStartsNoCooldown ==
    /\ accepted = <<>> => scaler.last_scaling_time = None
    /\ (last.scaled /\ Neq(last.new_limit, last.pre_limit) /\ last.pre_last = None) =>
          (last.ret /\ accepted = <<last.time_now>>)

\* a first request that differs from the seeded limit has been accepted less
\* than recovery_time minutes after the start of the trace
C38_Witness ==
    /\ last.scaled /\ last.ret
    /\ accepted = <<last.time_now>>
    /\ last.pre_limit = initial_cpu_limit
    /\ last.time_now - start_time < config.recovery_time * SecondsPerMinute

(* C40: within one run the LATEST_TIME of the decision rows is strictly      *)
(* increasing in row order, also for traces with gaps between observations   *)
(* longer than lag: no two rows carry the same LATEST_TIME.                  *)
C40_LatestTimeStrictlyIncreasing ==
    \A i, j \in 1..Len(decisions) :
        i < j => decisions[i].latest_time < decisions[j].latest_time

(* C39: every configuration handed to a tuning worker satisfies the          *)
(* invariants of a validated config, whatever candidate lists the caller     *)
(* supplies: window, lag, min_cpu_limit and max_cpu_limit are positive       *)
(* integers and min_cpu_limit <= max_cpu_limit.                              *)
C39_WorkerConfigsValidated ==
    \A i \in Returned :
        \A k \in 1..Len(tuner.invocations[i].configs) :
            LET g == tuner.invocations[i].configs[k].general_config
            IN /\ \A key \in {"window", "lag", "min_cpu_limit", "max_cpu_limit"} :
                      key \in DOMAIN g /\ IsPositiveInteger(g[key])
               /\ g["min_cpu_limit"][2] <= g["max_cpu_limit"][2]

\* the base config and the generated configurations, the base at index 0
Objects == [i \in 0..Len(heap.configs) |-> IF i = 0 THEN heap.base ELSE heap.configs[i]]

(* C35: generating the tuning configurations does not modify the base        *)
(* config; no two generated configurations, and no generated configuration   *)
(* and the base, share a section; a parameter written into one configuration *)
(* afterwards is not visible in any other, nor in the base.                  *)
C35_GeneratedConfigsShareNothing ==
    heap.pc \in {"generated", "written"} =>
        /\ heap.pc = "generated" =>
              /\ SectionContents(heap.cells, heap.base) = SectionContents(heap.built, heap.base)
              /\ SectionContents(heap.cells, heap.base)
                     = validate_config(load_from_dict(heap.config_file))
        /\ \A i, j \in DOMAIN Objects :
              i # j => Referenced(Objects[i]) \cap Referenced(Objects[j]) = {}
        /\ heap.pc = "written" =>
              \A i \in DOMAIN Objects :
                  i # heap.target =>
                      SectionContents(heap.cells, Objects[i]) = SectionContents(heap.before, Objects[i])

\* a parameter that was tuned has been written into one of at least two
\* generated configurations, and that configuration has changed
C35_Witness ==
    /\ heap.pc = "written"
    /\ Len(heap.configs) >= 2
    /\ heap.target > 0
    /\ heap.write.key \in TunedKeys(heap.args.general)
    /\ SectionContents(heap.cells, Objects[heap.target])
           # SectionContents(heap.before, Objects[heap.target])
    /\ \E i \in 1..Len(heap.configs) :
          SectionContents(heap.cells, heap.configs[i]) # SectionContents(heap.cells, heap.base)

(* C32: after the provider has been constructed the trace it holds is not    *)
(* empty, is sorted by timestamp ascending with no two observations at the   *)
(* same timestamp, and start_time and end_time are its smallest and its      *)
(* largest timestamp; with no observation to load, construction fails.       *)
C32_LoadedTraceSortedUnique ==
    /\ loader.pc = "constructed" =>
          LET rows == loader.recorded_data
          IN /\ rows # <<>>
             /\ \A i, j \in 1..Len(rows) : i < j => rows[i].time < rows[j].time
             /\ \A i \in 1..Len(rows) :
                   loader.start_time <= rows[i].time /\ rows[i].time <= loader.end_time
             /\ \E i, j \in 1..Len(rows) :
                   loader.start_time = rows[i].time /\ loader.end_time = rows[j].time
    /\ loader.pc \in {"FileNotFoundError", "KeyError", "IndexError"} =>
          \A i \in 1..Len(loader.files) :
              (loader.files[i].perf_event_log /\ loader.files[i].readable)
                  => loader.files[i].rows = <<>>

====
